---- MODULE Spec2Model ----
(***************************************************************************)
(* Model of the twopence ssh plugin (src/library/ssh.c): the transaction   *)
(* engine and I/O multiplexer behind run_test, interrupt_command, and the  *)
(* SCP transfer calls inject_file / extract_file.                          *)
(*                                                                         *)
(* The libssh session provider and the twopence iostream layer are the     *)
(* environment: every call into them has its result drawn from the set of  *)
(* results the call can give.                                              *)
(***************************************************************************)
EXTENDS Integers, Sequences, FiniteSets, TLC

---------------------------------------------------------------------------
\* Bounds of the model

\* largest cmd->timeout a caller asks for
MaxTimeout == 1
\* chunks of data the caller's stdin stream can deliver
MaxStdin == 1
\* most full chunks in a transferred file
MaxChunks == 2
\* interrupt_command calls the model lets a caller make during one run_test
\* call, and between two of them
MaxInterrupts == 1
\* failure reports made on one transaction
MaxReports == 4
\* the largest size of an output buffer
MaxBufSize == 2
\* the most bytes one twopence_sink_write call is given
MaxWrite == 2
\* the most bytes given to a sink over its life
MaxRouted == 4
\* twopence_target_new calls made in one process
MaxCalls == 4
\* threads that create targets at the same time
NThreads == 2

---------------------------------------------------------------------------
\* Program constants

\* size of the work buffer: the chunk size of the transfers
BUFFER_SIZE == 16384

SSH_OK == 0
SSH_ERROR == -1
EFAULT == 14
NSIG == 65

\* the twopence result codes: negative and distinct
TWOPENCE_PARAMETER_ERROR == -1
TWOPENCE_OPEN_SESSION_ERROR == -2
TWOPENCE_SEND_COMMAND_ERROR == -3
TWOPENCE_FORWARD_INPUT_ERROR == -4
TWOPENCE_RECEIVE_RESULTS_ERROR == -5
TWOPENCE_COMMAND_TIMEOUT_ERROR == -6
TWOPENCE_LOCAL_FILE_ERROR == -7
TWOPENCE_SEND_FILE_ERROR == -8
TWOPENCE_REMOTE_FILE_ERROR == -9
TWOPENCE_RECEIVE_FILE_ERROR == -10
TWOPENCE_INTERRUPT_COMMAND_ERROR == -11
TWOPENCE_INVALID_TARGET_SPEC == -12
TWOPENCE_UNKNOWN_PLUGIN == -13
TWOPENCE_INCOMPATIBLE_PLUGIN == -14
TWOPENCE_NOT_SUPPORTED == -15

\* the port of a body without one
DefaultPort == 22
\* the first value that is not taken as a port
PortLimit == 65535
\* the largest unsigned long: 2^32 - 1 or more. The model's integers end at
\* 2^31 - 1, which stands for it; every value it is compared with is smaller
ULONG_MAX == 2147483647

NULL == "NULL"

SetMax(S) == CHOOSE m \in S : \A n \in S : n <= m
SetMin(S) == CHOOSE m \in S : \A n \in S : m <= n

---------------------------------------------------------------------------
\* State

VARIABLES
  pc,          \* where the calling thread is inside run_test ("idle": not in it,
               \* "returned": at its return, "crashed": the process has ended)
  cmd,         \* the twopence_command_t of the running call
  foreground,  \* handle->transactions.foreground: NULL or "trans"
  trans,       \* the fields of the twopence_ssh_transaction object
  heap,        \* the allocation of that object: state and number of free() calls
  chan,        \* the provider's channel: its state and what was done on it
  sess,        \* the provider's session of the transaction
  stdin,       \* the caller's stdin iostream
  status,      \* the caller's twopence_status_t
  rc,          \* what the last run_test returned
  clock,       \* gettimeofday
  intr,        \* the interrupt_command calls made: how many, the last result
  hist,        \* what happened in the running call (observations for the properties)
  xfer,        \* the last inject_file / extract_file call
  reports,     \* the error codes reported to __twopence_ssh_transaction_fail, in order
  sink,        \* a twopence_sink, its buffers and what was written to it
  target,      \* a target specification and what twopence_target_new made of it
  loader,      \* the plugin libraries of the process: the cache of their handles,
               \* the loads made, and the threads that are creating a target
  call,        \* the last call of a function of the generic interface
  io           \* the output streams of a command: what the remote produces on
               \* them and what reaches the local streams

vars == <<pc, cmd, foreground, trans, heap, chan, sess, stdin, status, rc, clock, intr, hist, xfer,
          reports, sink, target, loader, call, io>>

\* calloc(1, sizeof(*trans)): every field zero
ZeroTrans ==
  [ session |-> FALSE, channel |-> FALSE, exception |-> 0, status_ret |-> FALSE,
    stdin_stream |-> FALSE, stdin_fd |-> 0, stdin_revents |-> FALSE,
    stdin_eof |-> FALSE, stdin_was_blocking |-> 0,
    stdout_eof |-> FALSE, stderr_eof |-> FALSE,
    command_timeout |-> 0,
    eof_sent |-> FALSE, use_tty |-> FALSE, interrupted |-> FALSE,
    exit_signal |-> 0, callbacks |-> FALSE ]

NoChan == [ state |-> "none", closes |-> 0, ctrlD |-> 0, ctrlC |-> 0, eofs |-> 0, data |-> 0 ]
NoSess == [ state |-> "none", frees |-> 0 ]
NoHist ==
  [ blocking0 |-> TRUE, opened |-> FALSE, started |-> FALSE, error |-> FALSE,
    eof |-> [i \in {"stdout", "stderr"} |-> "no"],
    exit |-> {}, signal |-> NULL, finalized |-> FALSE, ub |-> FALSE,
    status0 |-> [major |-> 0, minor |-> 0] ]
NoXfer == [ op |-> NULL ]
NoSink == [ mode |-> NULL ]
NoTarget == [ op |-> NULL ]
NoCall == [ op |-> NULL ]
NoIo == [ op |-> NULL ]

PluginTypes == {"TWOPENCE_PLUGIN_VIRTIO", "TWOPENCE_PLUGIN_SSH", "TWOPENCE_PLUGIN_SERIAL"}

Threads == 1 .. NThreads

\* static void *plugin_dl_handles[__TWOPENCE_PLUGIN_MAX]: all null at the
\* start of the process (TRUE: a handle is stored)
NoHandles == [ type \in PluginTypes |-> FALSE ]

IdleThread == [ pc |-> "idle", name |-> <<>>, type |-> NULL, dl_handle |-> FALSE, rc |-> 0 ]

\* handles: the cache; dlopens: the twopence_load_library calls made for each
\* type; loads: those that gave a handle; stores: the writes of the cache;
\* calls: the twopence_target_new calls made; last: the last of them (whether
\* the cache held a handle when it started, whether it loaded, its result);
\* th: the threads inside __twopence_get_plugin_ops
NoLoader ==
  [ handles |-> NoHandles,
    dlopens |-> [ type \in PluginTypes |-> 0 ],
    loads |-> [ type \in PluginTypes |-> 0 ],
    stores |-> [ type \in PluginTypes |-> 0 ],
    calls |-> 0,
    last |-> [ type |-> NULL, cached |-> FALSE, dlopened |-> FALSE, rc |-> 0 ],
    th |-> [ i \in Threads |-> IdleThread ] ]

\* The part of the state the transaction functions work on
World == [ t |-> trans, heap |-> heap, ch |-> chan, se |-> sess, in |-> stdin ]

SetWorld(w) ==
  /\ trans' = w.t
  /\ heap' = w.heap
  /\ chan' = w.ch
  /\ sess' = w.se
  /\ stdin' = w.in

---------------------------------------------------------------------------
\* The transaction object (lower layer)

\* twopence_iostream_set_blocking as the plugin uses it: the stream's previous
\* mode (1 blocking, 0 non-blocking), or a negative value when the stream's
\* mode cannot be changed, and then it is not changed
twopence_iostream_set_blocking(in, blocking) ==
  IF in.tunable
    THEN [ in |-> [in EXCEPT !.blocking = blocking],
           rc |-> IF in.blocking THEN 1 ELSE 0 ]
    ELSE [ in |-> in, rc |-> -1 ]

\* wr: what ssh_channel_write(channel, "\004", 1) returns (bytes written, or
\* SSH_ERROR); se: what ssh_channel_send_eof returns
__twopence_ssh_transaction_send_eof(w, wr, se) ==
  IF ~w.t.channel \/ w.t.eof_sent
    THEN [ w |-> w, rc |-> SSH_OK ]
    ELSE
      LET rc1 == IF w.t.use_tty THEN wr ELSE SSH_OK
          ch1 == IF w.t.use_tty /\ wr = 1 THEN [w.ch EXCEPT !.ctrlD = @ + 1] ELSE w.ch
          rc2 == IF rc1 = SSH_OK THEN se ELSE rc1
          ch2 == IF rc1 = SSH_OK /\ se = SSH_OK THEN [ch1 EXCEPT !.eofs = @ + 1] ELSE ch1
          t2  == IF rc2 = SSH_OK THEN [w.t EXCEPT !.eof_sent = TRUE] ELSE w.t
      IN [ w |-> [w EXCEPT !.t = t2, !.ch = ch2], rc |-> rc2 ]

__twopence_ssh_transaction_close_channel(w) ==
  LET w1 == IF w.t.channel
              THEN [w EXCEPT !.ch.state = "freed", !.ch.closes = @ + 1, !.t.channel = FALSE]
              ELSE w
  IN IF w1.t.session
       THEN [w1 EXCEPT !.se.state = "freed", !.se.frees = @ + 1, !.t.session = FALSE]
       ELSE w1

\* now: gettimeofday; the deadline is set once, here
__twopence_ssh_transaction_new(now, timeout) ==
  [ZeroTrans EXCEPT !.channel = FALSE, !.stdin_fd = -1, !.command_timeout = now + timeout]

\* on a live transaction object
__twopence_ssh_transaction_free(w) ==
  LET w1 == IF w.t.stdin_stream /\ w.t.stdin_was_blocking >= 0
              THEN [w EXCEPT !.in = twopence_iostream_set_blocking(w.in, w.t.stdin_was_blocking # 0).in]
              ELSE w
      w2 == __twopence_ssh_transaction_close_channel(w1)
  IN [w2 EXCEPT !.heap.state = "freed", !.heap.frees = @ + 1]

\* The same function called on an object that was already freed: its reads of
\* trans->stdin, trans->channel and trans->session are reads of freed memory
\* and the free() is a second free of the same block. The outcomes:
\*   "stale"   the block still holds what the first call left (channel and
\*             session NULL, the stream and its saved mode), so the stream's
\*             mode is set once more and nothing else is touched;
\*   "clobber" the block was overwritten: the stream is set to whatever mode
\*             (m) the overwritten field holds;
\*   "abort"   the allocator detects the second free and ends the process.
UBOutcomes == {"stale", "clobber", "abort"}

__twopence_ssh_transaction_free_again(w, ub, m) ==
  LET w1 == CASE ub = "stale" ->
                   IF w.t.stdin_stream /\ w.t.stdin_was_blocking >= 0
                     THEN [w EXCEPT !.in = twopence_iostream_set_blocking(w.in, w.t.stdin_was_blocking # 0).in]
                     ELSE w
              [] ub = "clobber" -> [w EXCEPT !.in.blocking = m]
              [] OTHER -> w
  IN [w1 EXCEPT !.heap.frees = @ + 1]

\* the function with every report stored, the last one staying
transaction_fail_overwrites(t, error) ==
  [t EXCEPT !.exception = error]

\* the function with its test the other way round: nothing is ever stored
transaction_fail_inverted(t, error) ==
  IF t.exception # 0 THEN [t EXCEPT !.exception = error] ELSE t

__twopence_ssh_transaction_fail(t, error) ==
  IF t.exception = 0 THEN [t EXCEPT !.exception = error] ELSE t

\* the stdin stream is &cmd->iostream[TWOPENCE_STDIN], never NULL
__twopence_ssh_transaction_setup_stdio(w) ==
  LET r == twopence_iostream_set_blocking(w.in, FALSE)
  IN [w EXCEPT !.in = r.in,
               !.t.stdin_was_blocking = r.rc,
               !.t.stdin_stream = TRUE,
               !.t.stdin_fd = -1,
               !.t.stdin_revents = FALSE]

\* The designated initializers of signames[NSIG], in the order written; the
\* signal numbers are those of <signal.h> on Linux, where SIGIOT is SIGABRT.
signames_init ==
  << <<1, "HUP">>, <<2, "INT">>, <<3, "QUIT">>, <<4, "ILL">>, <<5, "TRAP">>,
     <<6, "ABRT">>, <<6, "IOT">>, <<7, "BUS">>, <<8, "FPE">>, <<9, "KILL">>,
     <<10, "USR1">>, <<11, "SEGV">>, <<12, "USR2">>, <<13, "PIPE">>,
     <<14, "ALRM">>, <<15, "TERM">>, <<16, "STKFLT">>, <<17, "CHLD">>,
     <<18, "CONT">>, <<19, "STOP">>, <<20, "TSTP">>, <<21, "TTIN">>,
     <<22, "TTOU">>, <<23, "URG">>, <<24, "XCPU">>, <<25, "XFSZ">>,
     <<26, "VTALRM">>, <<27, "PROF">>, <<28, "WINCH">>, <<29, "IO">>,
     <<30, "PWR">>, <<31, "SYS">> >>

\* The array the initializers give: a later initializer of an element
\* overrides an earlier one; elements not named are NULL
signames ==
  [ signo \in 0 .. NSIG - 1 |->
      LET at == { i \in DOMAIN signames_init : signames_init[i][1] = signo }
      IN IF at = {} THEN NULL ELSE signames_init[SetMax(at)][2] ]

\* the callback with a name that is in no table taken for "no signal"
exit_signal_callback_unknown_is_none(t, signal) ==
  LET hits == { signo \in 0 .. NSIG - 1 : signames[signo] # NULL /\ signames[signo] = signal }
  IN IF hits # {} THEN [t EXCEPT !.exit_signal = SetMin(hits)]
                  ELSE [t EXCEPT !.exit_signal = 0]

\* signal: the name the remote reports
__twopence_ssh_exit_signal_callback(t, signal) ==
  LET hits == { signo \in 0 .. NSIG - 1 : signames[signo] # NULL /\ signames[signo] = signal }
  IN IF hits # {} THEN [t EXCEPT !.exit_signal = SetMin(hits)]
                  ELSE [t EXCEPT !.exit_signal = -1]

__twopence_ssh_init_callbacks(t) ==
  [t EXCEPT !.callbacks = TRUE]

\* o: how far the provider gets: "no_session" (__twopence_ssh_open_session
\* gives NULL), "no_channel" (ssh_channel_new gives NULL), "not_opened"
\* (ssh_channel_open_session fails), "ok"
OpenOutcomes == {"no_session", "no_channel", "not_opened", "ok"}

__twopence_ssh_transaction_open_session(w, o) ==
  IF o = "no_session" THEN [ w |-> w, rc |-> TWOPENCE_OPEN_SESSION_ERROR ]
  ELSE
    LET w1 == [w EXCEPT !.t.session = TRUE, !.se = [state |-> "open", frees |-> 0]]
    IN IF o = "no_channel" THEN [ w |-> w1, rc |-> TWOPENCE_OPEN_SESSION_ERROR ]
       ELSE
         LET w2 == [w1 EXCEPT !.t.channel = TRUE, !.ch = [NoChan EXCEPT !.state = "open"]]
         IN [ w |-> w2, rc |-> IF o = "ok" THEN 0 ELSE TWOPENCE_OPEN_SESSION_ERROR ]

\* pty: ssh_channel_request_pty succeeds; exec: ssh_channel_request_exec
\* succeeds. freed: the function has released the transaction itself.
__twopence_ssh_transaction_execute_command(w, request_tty, pty, exec) ==
  IF ~w.t.channel
    THEN [ w |-> w, rc |-> TWOPENCE_OPEN_SESSION_ERROR, freed |-> FALSE ]
  ELSE
    LET w1 == [w EXCEPT !.t = __twopence_ssh_init_callbacks(w.t)]
    IN IF request_tty /\ ~pty
         THEN [ w |-> __twopence_ssh_transaction_free(w1),
                rc |-> TWOPENCE_OPEN_SESSION_ERROR, freed |-> TRUE ]
       ELSE
         LET w2 == IF request_tty THEN [w1 EXCEPT !.t.use_tty = TRUE] ELSE w1
             w3 == __twopence_ssh_transaction_setup_stdio(w2)
         IN IF ~exec
              THEN [ w |-> __twopence_ssh_transaction_free(w3),
                     rc |-> TWOPENCE_SEND_COMMAND_ERROR, freed |-> TRUE ]
              ELSE [ w |-> [w3 EXCEPT !.t.status_ret = TRUE], rc |-> 0, freed |-> FALSE ]

\* the function with the exit code not stored into the status
get_exit_status_drops_code(w, st, e) ==
  IF ~w.t.status_ret \/ ~w.t.channel
    THEN [ w |-> w, st |-> st, rc |-> 0 ]
  ELSE
    LET s == __twopence_ssh_transaction_send_eof(w, e.wr, e.se)
    IN IF s.rc = SSH_ERROR
         THEN [ w |-> [s.w EXCEPT !.t = __twopence_ssh_transaction_fail(s.w.t, TWOPENCE_RECEIVE_RESULTS_ERROR)],
                st |-> st, rc |-> -1 ]
       ELSE
         LET t1 == IF e.signal # NULL /\ s.w.t.callbacks
                     THEN __twopence_ssh_exit_signal_callback(s.w.t, e.signal)
                     ELSE s.w.t
             st2 == IF e.exit = SSH_ERROR /\ t1.exit_signal # 0
                      THEN [major |-> EFAULT, minor |-> t1.exit_signal]
                      ELSE st
         IN [ w |-> [s.w EXCEPT !.t = [t1 EXCEPT !.status_ret = FALSE]],
              st |-> st2, rc |-> 0 ]

\* e: the provider's answers: e.wr and e.se for the end-of-input, e.exit what
\* ssh_channel_get_exit_status returns, e.signal the exit signal the remote
\* reports (NULL: none), which reaches the exit-signal callback while the exit
\* status is retrieved. st: the caller's status.
__twopence_ssh_transaction_get_exit_status(w, st, e) ==
  IF ~w.t.status_ret \/ ~w.t.channel
    THEN [ w |-> w, st |-> st, rc |-> 0 ]
  ELSE
    LET s == __twopence_ssh_transaction_send_eof(w, e.wr, e.se)
    IN IF s.rc = SSH_ERROR
         THEN [ w |-> [s.w EXCEPT !.t = __twopence_ssh_transaction_fail(s.w.t, TWOPENCE_RECEIVE_RESULTS_ERROR)],
                st |-> st, rc |-> -1 ]
       ELSE
         LET t1 == IF e.signal # NULL /\ s.w.t.callbacks
                     THEN __twopence_ssh_exit_signal_callback(s.w.t, e.signal)
                     ELSE s.w.t
             st1 == [st EXCEPT !.minor = e.exit]
             st2 == IF st1.minor = SSH_ERROR /\ t1.exit_signal # 0
                      THEN [major |-> EFAULT, minor |-> t1.exit_signal]
                      ELSE st1
         IN [ w |-> [s.w EXCEPT !.t = [t1 EXCEPT !.status_ret = FALSE]],
              st |-> st2, rc |-> 0 ]

---------------------------------------------------------------------------
\* Forwarding and polling (middle layer)

__twopence_ssh_transaction_mark_stdin_eof(w, wr, se) ==
  LET w1 == [w EXCEPT !.t.stdin_eof = TRUE]
      s  == __twopence_ssh_transaction_send_eof(w1, wr, se)
  IN IF s.rc = SSH_ERROR
       THEN [ w |-> s.w, rc |-> -1 ]
       ELSE [ w |-> [s.w EXCEPT !.t.stdin_fd = -1], rc |-> 0 ]

\* twopence_iostream_eof: a buffer is at its end when nothing is left in it,
\* a descriptor once a read has returned 0
twopence_iostream_eof(in) ==
  IF in.kind = "buf" THEN in.left = 0 ELSE in.eof

\* what twopence_iostream_read can give on the stream
ReadOutcomes(in) ==
  (IF in.left > 0 THEN {"data"} ELSE {"eof"})
    \cup (IF in.kind = "fd" THEN {"eagain", "error"} ELSE {})

\* what twopence_iostream_poll can return on the stream: 0 for a buffer or a
\* stream at its end, else 1 with the descriptor filled in, or an error
PollOutcomes(in) ==
  IF in.kind = "buf" \/ in.eof THEN {0} ELSE {1, -1}

\* the function with the count of the bytes the channel took not looked at
forward_stdin_ignores_short_write(w, e) ==
  IF ~w.t.stdin_stream \/ twopence_iostream_eof(w.in)
    THEN __twopence_ssh_transaction_mark_stdin_eof(w, e.wr, e.se)
  ELSE
    CASE e.read = "error"  -> [ w |-> w, rc |-> -1 ]
      [] e.read = "eagain" -> [ w |-> w, rc |-> 0 ]
      [] e.read = "eof"    ->
           __twopence_ssh_transaction_mark_stdin_eof([w EXCEPT !.in.eof = TRUE], e.wr, e.se)
      [] OTHER ->
           LET w1 == [w EXCEPT !.in.left = @ - 1]
           IN IF e.written
                THEN [ w |-> [w1 EXCEPT !.ch.data = @ + 1], rc |-> 0 ]
                ELSE [ w |-> w1, rc |-> 0 ]

\* e.read: what twopence_iostream_read gives; e.written: whether
\* ssh_channel_write takes the whole chunk; e.wr, e.se: the end-of-input
__twopence_ssh_transaction_forward_stdin(w, e) ==
  IF ~w.t.stdin_stream \/ twopence_iostream_eof(w.in)
    THEN __twopence_ssh_transaction_mark_stdin_eof(w, e.wr, e.se)
  ELSE
    CASE e.read = "error"  -> [ w |-> w, rc |-> -1 ]
      [] e.read = "eagain" -> [ w |-> w, rc |-> 0 ]
      [] e.read = "eof"    ->
           __twopence_ssh_transaction_mark_stdin_eof([w EXCEPT !.in.eof = TRUE], e.wr, e.se)
      [] OTHER ->
           LET w1 == [w EXCEPT !.in.left = @ - 1]
           IN IF e.written
                THEN [ w |-> [w1 EXCEPT !.ch.data = @ + 1], rc |-> 0 ]
                ELSE [ w |-> w1, rc |-> -1 ]

\* what the channel gives for one output stream in one pass:
\*   "none"       ssh_channel_poll returns 0
\*   "data"       bytes were read and written to the local stream
\*   "write_fail" bytes were read and the local write failed
\*   "eof"        the read returns SSH_EOF
\*   "error"      the read returns SSH_ERROR
OutputOutcomes == {"none", "data", "write_fail", "eof", "error"}

\* The local streams of a command, &cmd->iostream[...]: bound: the stream
\* has somewhere to write to; data: what was written to it
Outputs == {"stdout", "stderr"}
BoundStreams == [s \in Outputs |-> [bound |-> TRUE, data |-> <<>>]]

\* twopence_iostream_write(stream, buffer, size): ok: the write succeeds. A
\* stream bound to nothing takes the bytes and drops them.
twopence_iostream_write(stream, buffer, ok) ==
  IF ~ok THEN [ stream |-> stream, rc |-> -1 ]
  ELSE IF stream.bound
    THEN [ stream |-> [stream EXCEPT !.data = @ \o buffer], rc |-> Len(buffer) ]
    ELSE [ stream |-> stream, rc |-> Len(buffer) ]

\* the function with an end-of-stream flag taken back when data follows
forward_output_data_clears_eof(t, out, o, buffer, streams) ==
  CASE o = "none"  -> [ t |-> t, rc |-> 0, streams |-> streams ]
    [] o = "error" -> [ t |-> __twopence_ssh_transaction_fail(t, TWOPENCE_RECEIVE_RESULTS_ERROR), rc |-> -1,
                        streams |-> streams ]
    [] o = "eof"   -> [ t |-> IF out = "stdout" THEN [t EXCEPT !.stdout_eof = TRUE]
                                                ELSE [t EXCEPT !.stderr_eof = TRUE],
                        rc |-> 0, streams |-> streams ]
    [] OTHER ->
         LET wr == twopence_iostream_write(streams[out], buffer, o = "data")
         IN IF wr.rc < 0
              THEN [ t |-> __twopence_ssh_transaction_fail(t, TWOPENCE_RECEIVE_RESULTS_ERROR), rc |-> -1,
                     streams |-> [streams EXCEPT ![out] = wr.stream] ]
              ELSE [ t |-> IF out = "stdout" THEN [t EXCEPT !.stdout_eof = FALSE]
                                             ELSE [t EXCEPT !.stderr_eof = FALSE],
                     rc |-> 0, streams |-> [streams EXCEPT ![out] = wr.stream] ]

\* the function with everything that was read written to the stdout stream
forward_output_all_to_stdout(t, out, o, buffer, streams) ==
  CASE o = "none"  -> [ t |-> t, rc |-> 0, streams |-> streams ]
    [] o = "error" -> [ t |-> __twopence_ssh_transaction_fail(t, TWOPENCE_RECEIVE_RESULTS_ERROR), rc |-> -1,
                        streams |-> streams ]
    [] o = "eof"   -> [ t |-> IF out = "stdout" THEN [t EXCEPT !.stdout_eof = TRUE]
                                                ELSE [t EXCEPT !.stderr_eof = TRUE],
                        rc |-> 0, streams |-> streams ]
    [] OTHER ->
         LET wr == twopence_iostream_write(streams["stdout"], buffer, o = "data")
         IN IF wr.rc < 0
              THEN [ t |-> __twopence_ssh_transaction_fail(t, TWOPENCE_RECEIVE_RESULTS_ERROR), rc |-> -1,
                     streams |-> [streams EXCEPT !["stdout"] = wr.stream] ]
              ELSE [ t |-> t, rc |-> 0, streams |-> [streams EXCEPT !["stdout"] = wr.stream] ]

\* out: "stdout" or "stderr", the member of the transaction the function is
\* given; o: what the channel gives; buffer: the bytes read when it gives
\* data; streams: the local streams of the two members
__twopence_ssh_transaction_forward_output(t, out, o, buffer, streams) ==
  CASE o = "none"  -> [ t |-> t, rc |-> 0, streams |-> streams ]
    [] o = "error" -> [ t |-> __twopence_ssh_transaction_fail(t, TWOPENCE_RECEIVE_RESULTS_ERROR), rc |-> -1,
                        streams |-> streams ]
    [] o = "eof"   -> [ t |-> IF out = "stdout" THEN [t EXCEPT !.stdout_eof = TRUE]
                                                ELSE [t EXCEPT !.stderr_eof = TRUE],
                        rc |-> 0, streams |-> streams ]
    [] OTHER ->
         LET wr == twopence_iostream_write(streams[out], buffer, o = "data")
         IN IF wr.rc < 0
              THEN [ t |-> __twopence_ssh_transaction_fail(t, TWOPENCE_RECEIVE_RESULTS_ERROR), rc |-> -1,
                     streams |-> [streams EXCEPT ![out] = wr.stream] ]
              ELSE [ t |-> t, rc |-> 0, streams |-> [streams EXCEPT ![out] = wr.stream] ]

\* One turn of the while loop of __twopence_ssh_transaction_poll_stdin.
\* n: what twopence_iostream_poll returns. next: "again" (loop), "break"
\* (leave the loop, the function returns 0), "fail" (the function returns -1)
__twopence_ssh_transaction_poll_stdin(w, n, e) ==
  LET w0 == [w EXCEPT !.t.stdin_fd = -1]
  IN IF w0.t.stdin_eof THEN [ w |-> w0, next |-> "break" ]
     ELSE IF ~w0.t.stdin_stream
       THEN [ w |-> __twopence_ssh_transaction_mark_stdin_eof(w0, e.wr, e.se).w, next |-> "break" ]
     ELSE IF n = 0
       THEN LET f == __twopence_ssh_transaction_forward_stdin(w0, e)
            IN IF f.rc < 0
                 THEN [ w |-> [f.w EXCEPT !.t = __twopence_ssh_transaction_fail(f.w.t, TWOPENCE_FORWARD_INPUT_ERROR)],
                        next |-> "fail" ]
                 ELSE [ w |-> f.w, next |-> "again" ]
     ELSE IF n < 0
       THEN [ w |-> __twopence_ssh_transaction_mark_stdin_eof(w0, e.wr, e.se).w, next |-> "break" ]
     ELSE [ w |-> [w0 EXCEPT !.t.stdin_fd = 0], next |-> "break" ]

__twopence_ssh_poll_add_transaction(w, e) ==
  IF ~w.t.stdin_stream
    THEN __twopence_ssh_transaction_mark_stdin_eof(w, e.wr, e.se).w
    ELSE w

\* the check with the deadline itself taken for passed
check_timeout_at_deadline(now, expires) ==
  ~(expires <= now)

\* timercmp(expires, now, <): the deadline is passed only when it is
\* strictly before now
__twopence_ssh_check_timeout(now, expires) ==
  ~(expires < now)

\* wr: what ssh_channel_write(channel, "\003", 1) returns
__twopence_ssh_interrupt_ssh(fg, w, wr) ==
  IF fg = NULL \/ ~w.t.channel
    THEN [ w |-> w, rc |-> TWOPENCE_OPEN_SESSION_ERROR ]
  ELSE IF w.t.use_tty
    THEN IF w.t.eof_sent
           THEN [ w |-> w, rc |-> TWOPENCE_INTERRUPT_COMMAND_ERROR ]
         ELSE IF wr # 1
           THEN [ w |-> w, rc |-> TWOPENCE_INTERRUPT_COMMAND_ERROR ]
         ELSE [ w |-> [w EXCEPT !.ch.ctrlC = @ + 1], rc |-> 0 ]
  ELSE [ w |-> [w EXCEPT !.t.interrupted = TRUE], rc |-> 0 ]

---------------------------------------------------------------------------
\* What callers ask for and what the environment can answer

Commands == [ command : {TRUE}, timeout : 0 .. MaxTimeout, request_tty : BOOLEAN ]

\* The caller's stdin stream: backed by a descriptor or by a buffer, in
\* blocking mode or not, with some chunks of data to deliver. The mode of a
\* stream that cannot be tuned is never touched, and is left out (TRUE).
StdinStreams ==
  { s \in [ kind : {"fd", "buf"}, tunable : BOOLEAN, blocking : BOOLEAN,
            left : 0 .. MaxStdin, eof : {FALSE} ] : s.tunable \/ s.blocking }

\* ssh_channel_write of one byte: the byte count, or SSH_ERROR
WriteResults == {1, 0, SSH_ERROR}
\* ssh_channel_send_eof
EofResults == {SSH_OK, SSH_ERROR}
\* ssh_channel_get_exit_status
ExitCodes == {0, 1, SSH_ERROR}
\* the exit-signal names a remote can report: those of the table, and one
\* that is in no table
SignalNames == { signames_init[i][2] : i \in DOMAIN signames_init } \cup {"XYZ"}
\* the ones the remote of a command reports in the model of run_test
ReportedSignals == {"INT", "XYZ"}

\* The answers that can matter to an end-of-input sent on transaction t: the
\* write is made only under a tty, and neither call once eof_sent is set
WriteResultsOf(t) == IF t.use_tty /\ ~t.eof_sent THEN WriteResults ELSE {1}
EofResultsOf(t) == IF ~t.eof_sent THEN EofResults ELSE {SSH_OK}

EofEnv(t) == [ wr : WriteResultsOf(t), se : EofResultsOf(t) ]
StdinEnv(t, in) ==
  [ read : ReadOutcomes(in), written : BOOLEAN, wr : WriteResultsOf(t), se : EofResultsOf(t) ]
ExitEnv(t) ==
  [ wr : WriteResultsOf(t), se : EofResultsOf(t), exit : ExitCodes,
    signal : ReportedSignals \cup {NULL} ]

---------------------------------------------------------------------------
\* run_test (top layer), cut at the calls into the provider

\* The end of __twopence_ssh_command_ssh, after the poll loop returned r: the
\* assertion, the transaction's release, the foreground slot
CommandEnd(w, r) ==
  IF r < 0 /\ ~(w.t.exception < 0)
    THEN /\ pc' = "crashed"
         /\ SetWorld(w)
         /\ UNCHANGED <<foreground, rc>>
    ELSE /\ pc' = "returned"
         /\ rc' = IF r < 0 THEN w.t.exception ELSE r
         /\ SetWorld(__twopence_ssh_transaction_free(w))
         /\ foreground' = NULL

\* What the caller's status holds when run_test is called: nothing, or what
\* an earlier call has left in it
StaleStatus == { [major |-> 0, minor |-> 0], [major |-> 0, minor |-> 1], [major |-> EFAULT, minor |-> 9] }

\* the function with the status zeroed before the command is looked at
run_test_zeroes_first(c, st) ==
  IF ~c.command
    THEN [ rc |-> TWOPENCE_PARAMETER_ERROR, status |-> [major |-> 0, minor |-> 0], go |-> FALSE ]
    ELSE [ rc |-> 0, status |-> [major |-> 0, minor |-> 0], go |-> TRUE ]

\* twopence_ssh_run_test up to its call of __twopence_ssh_command_ssh. c: the
\* command; st: the caller's status at the call. go: the command is run
twopence_ssh_run_test(c, st) ==
  IF ~c.command
    THEN [ rc |-> TWOPENCE_PARAMETER_ERROR, status |-> st, go |-> FALSE ]
    ELSE [ rc |-> 0, status |-> [major |-> 0, minor |-> 0], go |-> TRUE ]

\* twopence_ssh_run_test with no command line
RunTestNoCommand ==
  /\ pc = "idle"
  /\ \E c \in Commands, s \in StdinStreams, st \in StaleStatus :
       LET r == twopence_ssh_run_test([c EXCEPT !.command = FALSE], st)
       IN /\ ~r.go
          /\ cmd' = [c EXCEPT !.command = FALSE]
          /\ stdin' = s
          /\ hist' = [NoHist EXCEPT !.blocking0 = s.blocking, !.status0 = st]
          /\ status' = r.status
          /\ rc' = r.rc
  /\ pc' = "returned"
  /\ UNCHANGED <<io, loader, call, foreground, trans, heap, chan, sess, clock, intr, xfer, reports, sink, target>>

\* twopence_ssh_run_test up to the transaction's creation, calloc failing
RunTestNoMemory ==
  /\ pc = "idle"
  /\ \E c \in Commands, s \in StdinStreams :
       /\ cmd' = c
       /\ stdin' = s
       /\ hist' = [NoHist EXCEPT !.blocking0 = s.blocking]
  /\ status' = [major |-> 0, minor |-> 0]
  /\ rc' = TWOPENCE_OPEN_SESSION_ERROR
  /\ clock' = 0
  /\ chan' = NoChan
  /\ sess' = NoSess
  /\ intr' = [n |-> 0, rc |-> 0]
  /\ pc' = "returned"
  /\ UNCHANGED <<io, loader, call, foreground, trans, heap, xfer, reports, sink, target>>

\* twopence_ssh_run_test up to the transaction's creation; the clock counts
\* from here
RunTest ==
  /\ pc = "idle"
  /\ \E c \in Commands, s \in StdinStreams :
       /\ cmd' = c
       /\ stdin' = s
       /\ hist' = [NoHist EXCEPT !.blocking0 = s.blocking]
       /\ trans' = __twopence_ssh_transaction_new(0, c.timeout)
  /\ status' = [major |-> 0, minor |-> 0]
  /\ clock' = 0
  /\ heap' = [state |-> "live", frees |-> 0]
  /\ foreground' = "trans"
  /\ chan' = NoChan
  /\ sess' = NoSess
  /\ intr' = [n |-> 0, rc |-> 0]
  /\ pc' = "open_session"
  /\ UNCHANGED <<io, loader, call, rc, xfer, reports, sink, target>>

\* __twopence_ssh_transaction_open_session and what follows it in
\* __twopence_ssh_command_ssh
OpenSession ==
  /\ pc = "open_session"
  /\ \E o \in OpenOutcomes :
       LET r == __twopence_ssh_transaction_open_session(World, o)
       IN IF r.rc # 0
            THEN /\ SetWorld(__twopence_ssh_transaction_free(r.w))
                 /\ rc' = r.rc
                 /\ pc' = "returned"
                 /\ hist' = [hist EXCEPT !.opened = (o # "no_session")]
                 /\ UNCHANGED status
            ELSE /\ SetWorld(r.w)
                 /\ status' = [status EXCEPT !.minor = 0]
                 /\ pc' = "execute"
                 /\ hist' = [hist EXCEPT !.opened = TRUE]
                 /\ UNCHANGED rc
  /\ UNCHANGED <<io, loader, call, cmd, foreground, clock, intr, xfer, reports, sink, target>>

\* __twopence_ssh_transaction_execute_command and what follows it: when the
\* function fails it has released the transaction, and the caller releases
\* it a second time
ExecuteCommand ==
  /\ pc = "execute"
  /\ \E pty \in BOOLEAN, exec \in BOOLEAN :
       LET r == __twopence_ssh_transaction_execute_command(World, cmd.request_tty, pty, exec)
       IN IF r.rc = 0
            THEN /\ SetWorld(r.w)
                 /\ pc' = "poll_stdin"
                 /\ hist' = [hist EXCEPT !.started = TRUE]
                 /\ UNCHANGED rc
            ELSE \E ub \in UBOutcomes, m \in BOOLEAN :
                 /\ SetWorld(IF r.freed THEN __twopence_ssh_transaction_free_again(r.w, ub, m)
                                        ELSE __twopence_ssh_transaction_free(r.w))
                 /\ hist' = [hist EXCEPT !.ub = r.freed]
                 /\ IF r.freed /\ ub = "abort"
                      THEN pc' = "crashed" /\ UNCHANGED rc
                      ELSE pc' = "returned" /\ rc' = r.rc
  /\ UNCHANGED <<io, loader, call, cmd, foreground, status, clock, intr, xfer, reports, sink, target>>

\* __twopence_ssh_transaction_poll_stdin, one turn of its loop
PollStdin ==
  /\ pc = "poll_stdin"
  /\ \E n \in PollOutcomes(stdin), e \in StdinEnv(trans, stdin) :
       LET r == __twopence_ssh_transaction_poll_stdin(World, n, e)
       IN /\ hist' = [hist EXCEPT !.error = @ \/ r.next = "fail" \/ (~trans.stdin_eof /\ n < 0)]
          /\ IF r.next = "fail"
               THEN CommandEnd(r.w, -1)
               ELSE /\ SetWorld(r.w)
                    /\ pc' = IF r.next = "break" THEN "loop_stdin" ELSE "poll_stdin"
                    /\ UNCHANGED <<foreground, rc>>
  /\ UNCHANGED <<io, loader, call, cmd, status, clock, intr, xfer, reports, sink, target>>

\* __twopence_ssh_poll, the loop's stdin step
LoopStdin ==
  /\ pc = "loop_stdin"
  /\ IF trans.stdin_revents
       THEN \E e \in StdinEnv(trans, stdin) :
              LET f == __twopence_ssh_transaction_forward_stdin(World, e)
              IN IF f.rc < 0
                   THEN /\ CommandEnd([f.w EXCEPT !.t = __twopence_ssh_transaction_fail(f.w.t, TWOPENCE_FORWARD_INPUT_ERROR)], -1)
                        /\ hist' = [hist EXCEPT !.error = TRUE]
                   ELSE /\ SetWorld([f.w EXCEPT !.t.stdin_revents = FALSE])
                        /\ pc' = "loop_stdout"
                        /\ UNCHANGED <<foreground, rc, hist>>
       ELSE /\ pc' = "loop_stdout"
            /\ UNCHANGED <<foreground, trans, heap, chan, sess, stdin, rc, hist>>
  /\ UNCHANGED <<io, loader, call, cmd, status, clock, intr, xfer, reports, sink, target>>

\* __twopence_ssh_poll, the loop's output steps
ForwardOutput(out, here, next) ==
  /\ pc = here
  /\ \E o \in OutputOutcomes :
       LET f == __twopence_ssh_transaction_forward_output(trans, out, o, <<>>, BoundStreams)
       IN /\ hist' = [hist EXCEPT !.error = @ \/ f.rc < 0,
                                  !.eof[out] = IF o = "eof" /\ @ = "no"
                                                 THEN (IF clock <= cmd.timeout THEN "in_time" ELSE "late")
                                                 ELSE @]
          /\ IF f.rc < 0
               THEN CommandEnd([World EXCEPT !.t = f.t], -1)
               ELSE /\ trans' = f.t
                    /\ pc' = next
                    /\ UNCHANGED <<foreground, heap, chan, sess, stdin, rc>>
  /\ UNCHANGED <<io, loader, call, cmd, status, clock, intr, xfer, reports, sink, target>>

ForwardStdout == ForwardOutput("stdout", "loop_stdout", "loop_stderr")

ForwardStderr == ForwardOutput("stderr", "loop_stderr", "loop_check")

\* __twopence_ssh_poll, the loop's end test: both streams ended
Finalize ==
  /\ pc = "loop_check"
  /\ trans.stdout_eof /\ trans.stderr_eof
  /\ \E e \in ExitEnv(trans) :
       LET g == __twopence_ssh_transaction_get_exit_status(World, status, e)
       IN /\ status' = g.st
          /\ hist' = [hist EXCEPT !.error = @ \/ g.rc < 0,
                                  !.finalized = (g.rc = 0),
                                  !.exit = IF g.rc = 0 THEN {e.exit} ELSE {},
                                  !.signal = IF g.rc = 0 THEN e.signal ELSE NULL]
          /\ CommandEnd(g.w, g.rc)
  /\ UNCHANGED <<io, loader, call, cmd, clock, intr, xfer, reports, sink, target>>

\* the deadline check taking an interrupted transaction for one that is
\* past its deadline
TimeoutOrInterrupted ==
  /\ pc = "loop_check"
  /\ ~(trans.stdout_eof /\ trans.stderr_eof)
  /\ ~__twopence_ssh_check_timeout(clock, trans.command_timeout) \/ trans.interrupted
  /\ CommandEnd([World EXCEPT !.t = __twopence_ssh_transaction_fail(trans, TWOPENCE_COMMAND_TIMEOUT_ERROR)], -1)
  /\ UNCHANGED <<io, loader, call, cmd, status, clock, intr, hist, xfer, reports, sink, target>>

\* __twopence_ssh_poll, the loop's deadline check: passed
Timeout ==
  /\ pc = "loop_check"
  /\ ~(trans.stdout_eof /\ trans.stderr_eof)
  /\ ~__twopence_ssh_check_timeout(clock, trans.command_timeout)
  /\ CommandEnd([World EXCEPT !.t = __twopence_ssh_transaction_fail(trans, TWOPENCE_COMMAND_TIMEOUT_ERROR)], -1)
  /\ UNCHANGED <<io, loader, call, cmd, status, clock, intr, hist, xfer, reports, sink, target>>

\* __twopence_ssh_poll, the loop's deadline check: not passed; the event is
\* set up
PollSetup ==
  /\ pc = "loop_check"
  /\ ~(trans.stdout_eof /\ trans.stderr_eof)
  /\ __twopence_ssh_check_timeout(clock, trans.command_timeout)
  /\ \E e \in EofEnv(trans) : SetWorld(__twopence_ssh_poll_add_transaction(World, e))
  /\ pc' = "dopoll"
  /\ UNCHANGED <<io, loader, call, cmd, foreground, status, rc, clock, intr, hist, xfer, reports, sink, target>>

\* ssh_event_dopoll returns: with an error, or after events or the timeout;
\* __twopence_ssh_stdin_cb has noted the readiness of a polled stdin
Dopoll ==
  /\ pc = "dopoll"
  /\ \E ok \in BOOLEAN, ready \in BOOLEAN :
       IF ~ok
         THEN /\ CommandEnd([World EXCEPT !.t = __twopence_ssh_transaction_fail(trans, TWOPENCE_RECEIVE_RESULTS_ERROR)], -1)
              /\ hist' = [hist EXCEPT !.error = TRUE]
         ELSE /\ trans' = [trans EXCEPT !.stdin_revents = IF trans.stdin_fd >= 0 /\ ready THEN TRUE ELSE @]
              /\ pc' = "loop_stdin"
              /\ UNCHANGED <<foreground, heap, chan, sess, stdin, rc, hist>>
  /\ UNCHANGED <<io, loader, call, cmd, status, clock, intr, xfer, reports, sink, target>>

\* The caller has the result of the call and lets go of the command, its
\* streams and its status; what stays is the target: the foreground slot and
\* the allocation it points to
Return ==
  /\ pc = "returned"
  /\ pc' = "idle"
  /\ cmd' = [command |-> TRUE, timeout |-> 0, request_tty |-> FALSE]
  /\ trans' = ZeroTrans
  /\ heap' = [heap EXCEPT !.frees = 0]
  /\ chan' = NoChan
  /\ sess' = NoSess
  /\ stdin' = [kind |-> "fd", tunable |-> TRUE, blocking |-> TRUE, left |-> 0, eof |-> FALSE]
  /\ status' = [major |-> 0, minor |-> 0]
  /\ rc' = 0
  /\ clock' = 0
  /\ hist' = NoHist
  /\ intr' = [n |-> 0, rc |-> 0]
  /\ UNCHANGED <<io, loader, call, foreground, xfer, reports, sink, target>>

\* Time passes while a call is running. The clock is read only to compare it
\* with the deadline, so it is not followed further than past the deadline.
Tick ==
  /\ pc \notin {"idle", "returned", "crashed"}
  /\ clock <= trans.command_timeout
  /\ clock' = clock + 1
  /\ UNCHANGED <<io, loader, call, pc, cmd, foreground, trans, heap, chan, sess, stdin, status, rc, intr, hist, xfer, reports, sink, target>>

---------------------------------------------------------------------------
\* interrupt_command: it can be called at any point of a running call (from
\* a signal handler or another thread), or when none is running

\* handle->transactions.foreground is NULL
InterruptNoForeground ==
  /\ pc \notin {"returned", "crashed"}
  /\ intr.n < MaxInterrupts
  /\ foreground = NULL
  /\ intr' = [n |-> intr.n + 1, rc |-> __twopence_ssh_interrupt_ssh(foreground, World, 1).rc]
  /\ UNCHANGED <<io, loader, call, pc, cmd, foreground, trans, heap, chan, sess, stdin, status, rc, clock, hist, xfer, reports, sink, target>>

\* the foreground transaction is a live object
InterruptForeground ==
  /\ pc \notin {"returned", "crashed"}
  /\ intr.n < MaxInterrupts
  /\ foreground # NULL
  /\ heap.state = "live"
  /\ \E wr \in WriteResults :
       LET r == __twopence_ssh_interrupt_ssh(foreground, World, wr)
       IN /\ SetWorld(r.w)
          /\ intr' = [n |-> intr.n + 1, rc |-> r.rc]
  /\ UNCHANGED <<io, loader, call, pc, cmd, foreground, status, rc, clock, hist, xfer, reports, sink, target>>

\* The foreground slot still points to a transaction that was freed: the
\* function's reads of trans->channel, use_tty and eof_sent are reads of freed
\* memory (g: what they give), and what it then writes goes to freed memory
\* or to a channel that was freed; the process may end there (crash)
InterruptDangling ==
  /\ pc \notin {"returned", "crashed"}
  /\ intr.n < MaxInterrupts
  /\ foreground # NULL
  /\ heap.state = "freed"
  /\ \E g \in [channel : BOOLEAN, use_tty : BOOLEAN, eof_sent : BOOLEAN],
        wr \in WriteResults, crash \in BOOLEAN :
       LET seen == [World EXCEPT !.t.channel = g.channel, !.t.use_tty = g.use_tty,
                                 !.t.eof_sent = g.eof_sent]
           r == __twopence_ssh_interrupt_ssh(foreground, seen, wr)
       IN /\ intr' = [n |-> intr.n + 1, rc |-> r.rc]
          /\ pc' = IF crash /\ g.channel THEN "crashed" ELSE pc
  /\ hist' = [hist EXCEPT !.ub = TRUE]
  /\ UNCHANGED <<io, loader, call, cmd, foreground, trans, heap, chan, sess, stdin, status, rc, clock, xfer, reports, sink, target>>

---------------------------------------------------------------------------
\* The target after twopence_ssh_init: no transaction, no call made yet

Init ==
  /\ pc = "idle"
  /\ cmd = [command |-> TRUE, timeout |-> 0, request_tty |-> FALSE]
  /\ foreground = NULL
  /\ trans = ZeroTrans
  /\ heap = [state |-> "none", frees |-> 0]
  /\ chan = NoChan
  /\ sess = NoSess
  /\ stdin = [kind |-> "fd", tunable |-> TRUE, blocking |-> TRUE, left |-> 0, eof |-> FALSE]
  /\ status = [major |-> 0, minor |-> 0]
  /\ rc = 0
  /\ clock = 0
  /\ intr = [n |-> 0, rc |-> 0]
  /\ hist = NoHist
  /\ xfer = NoXfer
  /\ reports = <<>>
  /\ sink = NoSink
  /\ target = NoTarget
  /\ loader = NoLoader
  /\ call = NoCall
  /\ io = NoIo

Next ==
  \/ RunTestNoCommand
  \/ RunTestNoMemory
  \/ RunTest
  \/ OpenSession
  \/ ExecuteCommand
  \/ PollStdin
  \/ LoopStdin
  \/ ForwardStdout
  \/ ForwardStderr
  \/ Finalize
  \/ Timeout
  \/ PollSetup
  \/ Dopoll
  \/ Return
  \/ Tick
  \/ InterruptNoForeground
  \/ InterruptForeground
  \/ InterruptDangling

Spec == Init /\ [][Next]_vars

\* The same with time advancing and every call into the provider returning:
\* the steps of a running call are taken, and the clock moves on
Progress ==
  \/ OpenSession \/ ExecuteCommand \/ PollStdin \/ LoopStdin \/ ForwardStdout \/ ForwardStderr
  \/ Finalize \/ Timeout \/ PollSetup \/ Dopoll

SpecLive == Spec /\ WF_clock(Tick) /\ WF_<<pc, trans, stdin>>(Progress)

---------------------------------------------------------------------------
\* SCP transfers: inject_file and extract_file. Each call has its own
\* transfer object (a local of the call), session and SCP handle.
\*   t        the twopence_scp_transaction fields
\*   se, scp  the provider's session and SCP handle of the transfer
\*   probe    the SCP handle of the remote directory probe
\*   pushed   the size announced with ssh_scp_push_file (-1: none)
\*   accepted ssh_scp_accept_request was called
\*   sent     bytes written to the remote side, got: bytes written locally
\*   dots, nl progress dots and newlines put to the output sink
\*   major    status->major
\*   local    the local stream: its content and the position of its next read
\*   remote   the remote file: its content and the position of its next read
\*
\* A file's content is a sequence of segments <<from, len>>: the bytes from,
\* from + 1, ... of the file that is injected (or, for a download on its own,
\* of the remote file). Two contents are the same bytes when their normal
\* forms are equal.

Original(n) == IF n = 0 THEN <<>> ELSE << <<0, n>> >>

RECURSIVE ContentLen(_)
ContentLen(c) == IF c = <<>> THEN 0 ELSE Head(c)[2] + ContentLen(Tail(c))

\* the size bytes of content c from position pos on (fewer when c ends before)
RECURSIVE Slice(_, _, _)
Slice(c, pos, size) ==
  IF c = <<>> \/ size <= 0 THEN <<>>
  ELSE LET from == Head(c)[1]
           len  == Head(c)[2]
       IN IF pos >= len THEN Slice(Tail(c), pos - len, size)
          ELSE LET n == IF len - pos < size THEN len - pos ELSE size
               IN << <<from + pos, n>> >> \o Slice(Tail(c), 0, size - n)

\* the normal form: no empty segment, adjoining segments made one
RECURSIVE Norm(_)
Norm(c) ==
  IF c = <<>> THEN <<>>
  ELSE IF Head(c)[2] = 0 THEN Norm(Tail(c))
  ELSE IF Len(c) = 1 THEN c
  ELSE IF c[2][2] = 0 THEN Norm(<<c[1]>> \o Tail(Tail(c)))
  ELSE IF c[1][1] + c[1][2] = c[2][1]
    THEN Norm(<< <<c[1][1], c[1][2] + c[2][2]>> >> \o Tail(Tail(c)))
  ELSE <<c[1]>> \o Norm(Tail(c))

NoStream == [ data |-> <<>>, pos |-> 0 ]

\* memset(state, 0, sizeof(*state)), the caller's status zeroed
twopence_scp_transfer_init ==
  [ t |-> [session |-> FALSE, scp |-> FALSE, remaining |-> 0],
    se |-> "none", scp |-> "none", probe |-> "none",
    pushed |-> -1, accepted |-> FALSE, sent |-> 0, got |-> 0,
    dots |-> 0, nl |-> 0, major |-> 0,
    local |-> NoStream, remote |-> NoStream ]

twopence_scp_transfer_destroy(x) ==
  LET x1 == IF x.t.scp THEN [x EXCEPT !.scp = "freed", !.t.scp = FALSE] ELSE x
  IN IF x1.t.session THEN [x1 EXCEPT !.se = "freed", !.t.session = FALSE] ELSE x1

\* ok: __twopence_ssh_open_session gives a session
twopence_scp_transfer_open_session(x, ok) ==
  IF ok THEN [ x |-> [x EXCEPT !.t.session = TRUE, !.se = "open"], rc |-> 0 ]
        ELSE [ x |-> x, rc |-> TWOPENCE_OPEN_SESSION_ERROR ]

\* o: "no_scp" (ssh_scp_new gives NULL), "no_init" (ssh_scp_init fails), "ok"
ScpOutcomes == {"no_scp", "no_init", "ok"}

twopence_scp_transfer_init_copy(x, o) ==
  IF o = "no_scp" THEN [ x |-> x, rc |-> TWOPENCE_OPEN_SESSION_ERROR ]
  ELSE LET x1 == [x EXCEPT !.t.scp = TRUE, !.scp = "open"]
       IN [ x |-> x1, rc |-> IF o = "ok" THEN 0 ELSE TWOPENCE_OPEN_SESSION_ERROR ]

\* o: how the probe goes: "no_scp", "no_init", "newdir" (the pull request
\* answers SSH_SCP_REQUEST_NEWDIR), "other" (it answers anything else)
ProbeOutcomes == {"no_scp", "no_init", "newdir", "other"}

\* the probe taking any answer to its pull request for a directory
check_remote_dir_any_request(x, o) ==
  [ x |-> IF o # "no_scp" THEN [x EXCEPT !.probe = "freed"] ELSE x,
    exists |-> (o \in {"newdir", "other"}) ]

__twopence_ssh_check_remote_dir(x, o) ==
  [ x |-> IF o # "no_scp" THEN [x EXCEPT !.probe = "freed"] ELSE x,
    exists |-> (o = "newdir") ]

ChunkSize(remaining) == IF remaining > BUFFER_SIZE THEN BUFFER_SIZE ELSE remaining

\* the upload with an if where the loop is: one chunk at most is sent
send_file_one_chunk(x, k, e) ==
  IF x.t.remaining > 0
    THEN LET size == ChunkSize(x.t.remaining)
             buffer == Slice(x.local.data, x.local.pos, size)
         IN [ x |-> [x EXCEPT !.local.pos = @ + size, !.remote.data = @ \o buffer,
                              !.sent = @ + size, !.dots = @ + 1, !.t.remaining = 0,
                              !.nl = @ + 1],
              rc |-> 0 ]
    ELSE [ x |-> [x EXCEPT !.nl = @ + 1], rc |-> 0 ]

\* k: chunks done so far. e.local_at: the chunk at which the local stream
\* fails (0: none); e.remote_at: the chunk at which the remote side fails
\* (0: none); e.code: what ssh_get_error_code then gives
RECURSIVE __twopence_ssh_send_file(_, _, _)
__twopence_ssh_send_file(x, k, e) ==
  IF x.t.remaining > 0
    THEN LET size == ChunkSize(x.t.remaining)
         IN IF e.local_at = k + 1
              THEN [ x |-> [x EXCEPT !.nl = @ + 1], rc |-> TWOPENCE_LOCAL_FILE_ERROR ]
            ELSE IF e.remote_at = k + 1
              THEN [ x |-> [x EXCEPT !.major = e.code, !.nl = @ + 1], rc |-> TWOPENCE_SEND_FILE_ERROR ]
            ELSE LET buffer == Slice(x.local.data, x.local.pos, size)
                 IN __twopence_ssh_send_file(
                      [x EXCEPT !.local.pos = @ + size, !.remote.data = @ \o buffer,
                                !.sent = @ + size, !.dots = @ + 1, !.t.remaining = @ - size],
                      k + 1, e)
    ELSE [ x |-> [x EXCEPT !.nl = @ + 1], rc |-> 0 ]

RECURSIVE __twopence_ssh_receive_file(_, _, _)
__twopence_ssh_receive_file(x, k, e) ==
  IF x.t.remaining > 0
    THEN LET size == ChunkSize(x.t.remaining)
         IN IF e.remote_at = k + 1
              THEN [ x |-> [x EXCEPT !.major = e.code, !.nl = @ + 1], rc |-> TWOPENCE_RECEIVE_FILE_ERROR ]
            ELSE IF e.local_at = k + 1
              THEN [ x |-> [x EXCEPT !.nl = @ + 1], rc |-> TWOPENCE_LOCAL_FILE_ERROR ]
            ELSE LET buffer == Slice(x.remote.data, x.remote.pos, size)
                 IN __twopence_ssh_receive_file(
                      [x EXCEPT !.remote.pos = @ + size, !.local.data = @ \o buffer,
                                !.got = @ + size, !.dots = @ + 1, !.t.remaining = @ - size],
                      k + 1, e)
    ELSE [ x |-> [x EXCEPT !.nl = @ + 1], rc |-> 0 ]

\* filesize: twopence_iostream_filesize of the stream that is sent; the
\* stream holds the file that is injected
__twopence_ssh_inject_ssh(x, filesize, e) ==
  LET d == __twopence_ssh_check_remote_dir(x, e.probe)
  IN IF ~d.exists THEN [ x |-> d.x, rc |-> TWOPENCE_SEND_FILE_ERROR ]
     ELSE LET c == twopence_scp_transfer_init_copy(d.x, e.scp)
          IN IF c.rc < 0 THEN c
             ELSE IF ~e.push
               THEN [ x |-> [c.x EXCEPT !.major = e.code], rc |-> TWOPENCE_SEND_FILE_ERROR ]
             ELSE __twopence_ssh_send_file(
                    [c.x EXCEPT !.pushed = filesize, !.t.remaining = filesize,
                                !.local = [data |-> Original(filesize), pos |-> 0]], 0, e)

\* the download without the early return on an announced size of zero
extract_ssh_accepts_empty(x, e) ==
  LET c == twopence_scp_transfer_init_copy(x, e.scp)
  IN IF c.rc < 0 THEN c
     ELSE IF e.request # "newfile"
       THEN [ x |-> [c.x EXCEPT !.major = e.code], rc |-> TWOPENCE_RECEIVE_FILE_ERROR ]
     ELSE IF ~e.accept
       THEN [ x |-> [c.x EXCEPT !.major = e.code], rc |-> TWOPENCE_RECEIVE_FILE_ERROR ]
     ELSE LET r == __twopence_ssh_receive_file(
                     [c.x EXCEPT !.accepted = TRUE, !.t.remaining = e.size,
                                 !.remote = [data |-> e.file, pos |-> 0]], 0, e)
          IN IF r.rc < 0 THEN r
             ELSE IF e.last # "eof"
               THEN [ x |-> [r.x EXCEPT !.major = e.code], rc |-> TWOPENCE_RECEIVE_FILE_ERROR ]
             ELSE r

\* e.request: what the first ssh_scp_pull_request answers ("newfile" or
\* "other"); e.size: the size it announces; e.accept: ssh_scp_accept_request
\* succeeds; e.last: what the pull request after the data answers; e.file:
\* the content of the remote file
__twopence_ssh_extract_ssh(x, e) ==
  LET c == twopence_scp_transfer_init_copy(x, e.scp)
  IN IF c.rc < 0 THEN c
     ELSE IF e.request # "newfile"
       THEN [ x |-> [c.x EXCEPT !.major = e.code], rc |-> TWOPENCE_RECEIVE_FILE_ERROR ]
     ELSE IF e.size = 0 THEN [ x |-> c.x, rc |-> 0 ]
     ELSE IF ~e.accept
       THEN [ x |-> [c.x EXCEPT !.major = e.code], rc |-> TWOPENCE_RECEIVE_FILE_ERROR ]
     ELSE LET r == __twopence_ssh_receive_file(
                     [c.x EXCEPT !.accepted = TRUE, !.t.remaining = e.size,
                                 !.remote = [data |-> e.file, pos |-> 0]], 0, e)
          IN IF r.rc < 0 THEN r
             ELSE IF e.last # "eof"
               THEN [ x |-> [r.x EXCEPT !.major = e.code], rc |-> TWOPENCE_RECEIVE_FILE_ERROR ]
             ELSE r

RemoteFileError(r) ==
  IF r.rc = 0 /\ r.x.major # 0 THEN TWOPENCE_REMOTE_FILE_ERROR ELSE r.rc

\* e.session: the session opens; e.filesize: the size of the local stream, -1
\* when it cannot tell (a pipe); e.buffered: the size of its content once
\* read in full by twopence_iostream_read_all, -1 when that fails
twopence_ssh_inject_file(e) ==
  LET o == twopence_scp_transfer_open_session(twopence_scp_transfer_init, e.session)
  IN IF o.rc < 0 THEN o
     ELSE IF e.filesize < 0 /\ e.buffered < 0
       THEN [ x |-> o.x, rc |-> TWOPENCE_LOCAL_FILE_ERROR ]
     ELSE LET r == __twopence_ssh_inject_ssh(o.x, IF e.filesize < 0 THEN e.buffered ELSE e.filesize, e)
          IN [ x |-> twopence_scp_transfer_destroy(r.x), rc |-> RemoteFileError(r) ]

twopence_ssh_extract_file(e) ==
  LET o == twopence_scp_transfer_open_session(twopence_scp_transfer_init, e.session)
  IN IF o.rc < 0 THEN o
     ELSE LET r == __twopence_ssh_extract_ssh(o.x, e)
          IN [ x |-> r.x, rc |-> RemoteFileError(r) ]

\* The sizes of the files transferred: empty, one byte, and up to MaxChunks
\* full chunks with or without one more byte
FileSizes ==
  {0, 1} \cup { k * BUFFER_SIZE : k \in 1 .. MaxChunks }
         \cup { k * BUFFER_SIZE + 1 : k \in 1 .. MaxChunks }

\* the files of these sizes
FileContents == { Original(n) : n \in FileSizes }

\* ssh_get_error_code after a failure: none recorded, or SSH_FATAL
ErrorCodes == {0, 2}

\* where a transfer's chunk loop can be made to fail: nowhere, at one chunk
\* on one side, or at one chunk on both sides
FailurePoints ==
  { f \in [ local_at : 0 .. MaxChunks + 1, remote_at : 0 .. MaxChunks + 1 ] :
      f.local_at = 0 \/ f.remote_at = 0 \/ f.local_at = f.remote_at }

\* The answers to an inject_file call. An answer to a call that is never made
\* is left out (held at its first value): the content is read in full only
\* when the stream cannot tell its size, nothing follows a session that does
\* not open, a probe that finds no directory, a handle that is not set up or
\* an announcement that is refused, and an error code is read only after a
\* remote failure.
InjectEnv ==
  { e \in [ session : BOOLEAN, filesize : FileSizes \cup {-1}, buffered : {-1, 0, 1},
            probe : ProbeOutcomes, scp : ScpOutcomes, push : BOOLEAN,
            local_at : 0 .. MaxChunks + 1, remote_at : 0 .. MaxChunks + 1,
            code : ErrorCodes ] :
      LET size == IF e.filesize < 0 THEN e.buffered ELSE e.filesize
          sends == e.session /\ size >= 0 /\ e.probe = "newdir" /\ e.scp = "ok" /\ e.push
      IN /\ e.filesize >= 0 => e.buffered = -1
         /\ [local_at |-> e.local_at, remote_at |-> e.remote_at] \in FailurePoints
         /\ ~e.session => e.filesize = 0
         /\ ~(e.session /\ size >= 0) => e.probe = "newdir"
         /\ ~(e.session /\ size >= 0 /\ e.probe = "newdir") => e.scp = "ok"
         /\ ~(e.session /\ size >= 0 /\ e.probe = "newdir" /\ e.scp = "ok") => e.push
         /\ ~sends => e.local_at = 0 /\ e.remote_at = 0
         /\ (e.push /\ e.remote_at = 0) => e.code = 0 }

\* The answers to an extract_file call, likewise
ExtractEnv ==
  { e \in [ session : BOOLEAN, scp : ScpOutcomes, request : {"newfile", "other"},
            size : FileSizes, file : FileContents, accept : BOOLEAN, last : {"eof", "other"},
            local_at : 0 .. MaxChunks + 1, remote_at : 0 .. MaxChunks + 1,
            code : ErrorCodes ] :
      LET asks == e.session /\ e.scp = "ok"
          reads == asks /\ e.request = "newfile" /\ e.size > 0 /\ e.accept
      IN /\ [local_at |-> e.local_at, remote_at |-> e.remote_at] \in FailurePoints
         /\ e.file = Original(e.size)
         /\ ~e.session => e.scp = "ok"
         /\ ~asks => e.request = "newfile"
         /\ ~(asks /\ e.request = "newfile") => e.size = 0
         /\ ~(asks /\ e.request = "newfile" /\ e.size > 0) => e.accept
         /\ ~reads => e.local_at = 0 /\ e.remote_at = 0
         /\ ~(reads /\ e.local_at = 0 /\ e.remote_at = 0) => e.last = "eof"
         /\ (e.request = "newfile" /\ e.accept /\ e.remote_at = 0 /\ e.last = "eof") => e.code = 0 }

\* twopence_ssh_inject_file, from its call to its return
InjectFile ==
  /\ pc = "idle"
  /\ \E e \in InjectEnv :
       LET r == twopence_ssh_inject_file(e)
       IN xfer' = [ op |-> "inject", opened |-> e.session,
                    size |-> IF e.filesize < 0 THEN e.buffered ELSE e.filesize,
                    dir |-> (e.probe = "newdir"), x |-> r.x, rc |-> r.rc, orig |-> -1 ]
  /\ UNCHANGED <<io, loader, call, pc, cmd, foreground, trans, heap, chan, sess, stdin, status, rc, clock, intr, hist,
                 reports, sink, target>>

\* twopence_ssh_extract_file, from its call to its return
ExtractFile ==
  /\ pc = "idle"
  /\ \E e \in ExtractEnv :
       LET r == twopence_ssh_extract_file(e)
       IN xfer' = [ op |-> "extract", opened |-> e.session,
                    size |-> IF e.session /\ e.scp = "ok" /\ e.request = "newfile" THEN e.size ELSE -1,
                    dir |-> TRUE, x |-> r.x, rc |-> r.rc, orig |-> -1 ]
  /\ UNCHANGED <<io, loader, call, pc, cmd, foreground, trans, heap, chan, sess, stdin, status, rc, clock, intr, hist,
                 reports, sink, target>>

\* twopence_ssh_extract_file of the remote file that the last inject_file
\* call has made, that call having succeeded: the remote side serves what was
\* written to it and announces its size. orig: the size of the file injected
ExtractInjected ==
  /\ pc = "idle"
  /\ xfer.op = "inject" /\ xfer.rc = 0
  /\ \E e0 \in ExtractEnv :
       /\ e0.size = ContentLen(xfer.x.remote.data)
       /\ LET e == [e0 EXCEPT !.file = xfer.x.remote.data]
              r == twopence_ssh_extract_file(e)
          IN xfer' = [ op |-> "extract", opened |-> e.session,
                       size |-> IF e.session /\ e.scp = "ok" /\ e.request = "newfile" THEN e.size ELSE -1,
                       dir |-> TRUE, x |-> r.x, rc |-> r.rc, orig |-> xfer.size ]
  /\ UNCHANGED <<io, loader, call, pc, cmd, foreground, trans, heap, chan, sess, stdin, status, rc, clock, intr, hist,
                 reports, sink, target>>

NextXfer ==
  \/ InjectFile
  \/ ExtractFile
  \/ ExtractInjected

SpecXfer == Init /\ [][NextXfer]_vars

---------------------------------------------------------------------------
\* The exit-signal callback on its own: the remote reports one of the names
\* to a transaction whose callbacks are registered

InitSignal ==
  /\ pc = "callback"
  /\ cmd \in Commands
  /\ trans = [__twopence_ssh_init_callbacks(__twopence_ssh_transaction_new(0, cmd.timeout))
                EXCEPT !.session = TRUE, !.channel = TRUE, !.use_tty = cmd.request_tty]
  /\ hist \in { [NoHist EXCEPT !.signal = n] : n \in SignalNames }
  /\ foreground = "trans"
  /\ heap = [state |-> "live", frees |-> 0]
  /\ chan = [NoChan EXCEPT !.state = "open"]
  /\ sess = [state |-> "open", frees |-> 0]
  /\ stdin = [kind |-> "fd", tunable |-> TRUE, blocking |-> TRUE, left |-> 0, eof |-> FALSE]
  /\ status = [major |-> 0, minor |-> 0]
  /\ rc = 0
  /\ clock = 0
  /\ intr = [n |-> 0, rc |-> 0]
  /\ xfer = NoXfer
  /\ reports = <<>>
  /\ sink = NoSink
  /\ target = NoTarget
  /\ loader = NoLoader
  /\ call = NoCall
  /\ io = NoIo

ExitSignal ==
  /\ pc = "callback"
  /\ trans' = __twopence_ssh_exit_signal_callback(trans, hist.signal)
  /\ pc' = "called"
  /\ UNCHANGED <<io, loader, call, cmd, foreground, heap, chan, sess, stdin, status, rc, clock, intr, hist, xfer, reports, sink, target>>

NextSignal == ExitSignal

SpecSignal == InitSignal /\ [][NextSignal]_vars

---------------------------------------------------------------------------
\* Failure reports on their own: any of the codes the poll loop reports, any
\* number of times, on a transaction that is running its command; then the
\* loop returns -1 to __twopence_ssh_command_ssh

\* the codes passed to __twopence_ssh_transaction_fail
ErrorReports ==
  { TWOPENCE_FORWARD_INPUT_ERROR, TWOPENCE_RECEIVE_RESULTS_ERROR, TWOPENCE_COMMAND_TIMEOUT_ERROR }

InitFail ==
  /\ pc = "polling"
  /\ cmd \in Commands
  /\ trans = [__twopence_ssh_init_callbacks(__twopence_ssh_transaction_new(0, cmd.timeout))
                EXCEPT !.session = TRUE, !.channel = TRUE, !.use_tty = cmd.request_tty,
                       !.status_ret = TRUE]
  /\ hist = [NoHist EXCEPT !.opened = TRUE, !.started = TRUE]
  /\ foreground = "trans"
  /\ heap = [state |-> "live", frees |-> 0]
  /\ chan = [NoChan EXCEPT !.state = "open"]
  /\ sess = [state |-> "open", frees |-> 0]
  /\ stdin = [kind |-> "fd", tunable |-> TRUE, blocking |-> TRUE, left |-> 0, eof |-> FALSE]
  /\ status = [major |-> 0, minor |-> 0]
  /\ rc = 0
  /\ clock = 0
  /\ intr = [n |-> 0, rc |-> 0]
  /\ xfer = NoXfer
  /\ reports = <<>>
  /\ sink = NoSink
  /\ target = NoTarget
  /\ loader = NoLoader
  /\ call = NoCall
  /\ io = NoIo

FailReport ==
  /\ pc = "polling"
  /\ Len(reports) < MaxReports
  /\ \E error \in ErrorReports :
       /\ trans' = __twopence_ssh_transaction_fail(trans, error)
       /\ reports' = Append(reports, error)
  /\ UNCHANGED <<io, loader, call, pc, cmd, foreground, heap, chan, sess, stdin, status, rc, clock, intr, hist,
                 xfer, sink, target>>

PollFails ==
  /\ pc = "polling"
  /\ reports # <<>>
  /\ CommandEnd(World, -1)
  /\ UNCHANGED <<io, loader, call, cmd, status, clock, intr, hist, xfer, reports, sink, target>>

NextFail ==
  \/ FailReport
  \/ PollFails

SpecFail == InitFail /\ [][NextFail]_vars

----------------------------------------------------------------------------
\* The output sink (twopence.c)
\*
\* A buffer is the bytes stored so far (tail - head of them) and its size
\* (end - head). A sink is its mode and its two buffers.

TWOPENCE_OUTPUT_NONE == "none"
TWOPENCE_OUTPUT_SCREEN == "screen"
TWOPENCE_OUTPUT_BUFFER == "buffer"
TWOPENCE_OUTPUT_BUFFER_SEPARATELY == "buffer_separately"

\* the modes a caller can ask for: the four of the interface and any other value
OutputModes ==
  {TWOPENCE_OUTPUT_NONE, TWOPENCE_OUTPUT_SCREEN, TWOPENCE_OUTPUT_BUFFER,
   TWOPENCE_OUTPUT_BUFFER_SEPARATELY, "unsupported"}

BufferModes == {TWOPENCE_OUTPUT_BUFFER, TWOPENCE_OUTPUT_BUFFER_SEPARATELY}

Bytes == {"a", "b"}

\* the data of a write call: up to MaxWrite bytes
WriteData == UNION { [1 .. n -> Bytes] : n \in 0 .. MaxWrite }

\* memset(sink, 0, sizeof(*sink)): tail and end both null
ZeroBuffer == [ data |-> <<>>, size |-> 0 ]

__twopence_buffer_init(size) == [ data |-> <<>>, size |-> size ]

\* outbuf, errbuf: the caller's buffer pointers are not null
twopence_sink_init(mode, outbuf, errbuf, bufsize) ==
  LET none == [ mode |-> TWOPENCE_OUTPUT_NONE, outbuf |-> ZeroBuffer, errbuf |-> ZeroBuffer ]
  IN CASE mode \in {TWOPENCE_OUTPUT_NONE, TWOPENCE_OUTPUT_SCREEN} ->
            [none EXCEPT !.mode = mode]
       [] mode = TWOPENCE_OUTPUT_BUFFER ->
            IF outbuf /\ bufsize # 0
              THEN [none EXCEPT !.mode = mode, !.outbuf = __twopence_buffer_init(bufsize)]
              ELSE none
       [] mode = TWOPENCE_OUTPUT_BUFFER_SEPARATELY ->
            IF outbuf /\ errbuf /\ bufsize # 0
              THEN [none EXCEPT !.mode = mode, !.outbuf = __twopence_buffer_init(bufsize),
                                !.errbuf = __twopence_buffer_init(bufsize)]
              ELSE none
       [] OTHER -> none

\* the function with > where the code has >=
buffer_putc_past_end(bp, c) ==
  IF Len(bp.data) > bp.size
    THEN [ bp |-> bp, written |-> 0 ]
    ELSE [ bp |-> [bp EXCEPT !.data = Append(@, c)], written |-> 1 ]

__twopence_buffer_putc(bp, c) ==
  IF Len(bp.data) >= bp.size
    THEN [ bp |-> bp, written |-> 0 ]
    ELSE [ bp |-> [bp EXCEPT !.data = Append(@, c)], written |-> 1 ]

\* screen: what write(1, &c, 1) returns
__twopence_sink_write_stdout(s, c, screen) ==
  CASE s.mode = TWOPENCE_OUTPUT_NONE -> [ s |-> s, rc |-> 0 ]
    [] s.mode = TWOPENCE_OUTPUT_SCREEN -> [ s |-> s, rc |-> IF screen # 1 THEN -1 ELSE 0 ]
    [] s.mode \in BufferModes ->
         LET w == __twopence_buffer_putc(s.outbuf, c)
         IN [ s |-> [s EXCEPT !.outbuf = w.bp], rc |-> IF w.written # 1 THEN -1 ELSE 0 ]

\* screen: what write(2, &c, 1) returns
__twopence_sink_write_stderr(s, c, screen) ==
  CASE s.mode = TWOPENCE_OUTPUT_NONE -> [ s |-> s, rc |-> 0 ]
    [] s.mode = TWOPENCE_OUTPUT_SCREEN -> [ s |-> s, rc |-> IF screen # 1 THEN -1 ELSE 0 ]
    [] s.mode = TWOPENCE_OUTPUT_BUFFER ->
         LET w == __twopence_buffer_putc(s.outbuf, c)
         IN [ s |-> [s EXCEPT !.outbuf = w.bp], rc |-> IF w.written # 1 THEN -1 ELSE 0 ]
    [] s.mode = TWOPENCE_OUTPUT_BUFFER_SEPARATELY ->
         LET w == __twopence_buffer_putc(s.errbuf, c)
         IN [ s |-> [s EXCEPT !.errbuf = w.bp], rc |-> IF w.written # 1 THEN -1 ELSE 0 ]

twopence_sink_putc(s, is_error, c, screen) ==
  IF is_error THEN __twopence_sink_write_stderr(s, c, screen)
              ELSE __twopence_sink_write_stdout(s, c, screen)

\* count: the bytes written so far by this call
RECURSIVE twopence_sink_write(_, _, _, _, _)
twopence_sink_write(s, is_error, data, count, screen) ==
  IF data = <<>> THEN [ s |-> s, rc |-> count ]
  ELSE LET w == IF is_error THEN __twopence_sink_write_stderr(s, Head(data), screen)
                            ELSE __twopence_sink_write_stdout(s, Head(data), screen)
       IN IF w.rc < 0 THEN w
          ELSE twopence_sink_write(w.s, is_error, Tail(data), count + 1, screen)

\* The buffer that the interface gives to a stream in a buffer mode: one
\* buffer for both streams, or one for each
RoutedTo(mode, is_error) ==
  IF mode = TWOPENCE_OUTPUT_BUFFER_SEPARATELY /\ is_error THEN "errbuf" ELSE "outbuf"

\* sink: the sink (s), the bytes its callers have given for each buffer
\* (routed), and of the last call: its name, the number of bytes it was given,
\* whether the buffer it goes to was full when it was made, what it returned
SinkInit ==
  /\ sink = NoSink
  /\ \E mode \in OutputModes, outbuf, errbuf \in BOOLEAN, bufsize \in 0 .. MaxBufSize :
       sink' = [ mode |-> "set",
                 s |-> twopence_sink_init(mode, outbuf, errbuf, bufsize),
                 routed |-> [outbuf |-> <<>>, errbuf |-> <<>>],
                 op |-> "init", n |-> 0, full |-> FALSE, rc |-> 0 ]
  /\ UNCHANGED <<io, loader, call, pc, cmd, foreground, trans, heap, chan, sess, stdin, status, rc, clock, intr, hist,
                 xfer, reports, target>>

SinkCall(op, is_error, data, r) ==
  LET b == RoutedTo(sink.s.mode, is_error)
  IN sink' = [sink EXCEPT
                !.s = r.s,
                !.routed[b] = IF sink.s.mode \in BufferModes THEN @ \o data ELSE @,
                !.op = op, !.n = Len(data),
                !.full = Len(sink.s[b].data) >= sink.s[b].size,
                !.rc = r.rc]

SinkPutc ==
  /\ sink # NoSink
  /\ Len(sink.routed.outbuf) + Len(sink.routed.errbuf) < MaxRouted
  /\ \E is_error \in BOOLEAN, c \in Bytes, screen \in {-1, 1} :
       /\ sink.s.mode # TWOPENCE_OUTPUT_SCREEN => screen = 1
       /\ SinkCall("putc", is_error, <<c>>, twopence_sink_putc(sink.s, is_error, c, screen))
  /\ UNCHANGED <<io, loader, call, pc, cmd, foreground, trans, heap, chan, sess, stdin, status, rc, clock, intr, hist,
                 xfer, reports, target>>

SinkWrite ==
  /\ sink # NoSink
  /\ \E is_error \in BOOLEAN, data \in WriteData, screen \in {-1, 1} :
       /\ Len(sink.routed.outbuf) + Len(sink.routed.errbuf) + Len(data) <= MaxRouted
       /\ sink.s.mode # TWOPENCE_OUTPUT_SCREEN => screen = 1
       /\ SinkCall("write", is_error, data, twopence_sink_write(sink.s, is_error, data, 0, screen))
  /\ UNCHANGED <<io, loader, call, pc, cmd, foreground, trans, heap, chan, sess, stdin, status, rc, clock, intr, hist,
                 xfer, reports, target>>

NextSink ==
  \/ SinkInit
  \/ SinkPutc
  \/ SinkWrite

SpecSink == Init /\ [][NextSink]_vars

----------------------------------------------------------------------------
\* Target specifications (twopence.c, ssh.c)
\*
\* A C string is the sequence of its characters before the terminating NUL.

\* the number of characters of s before the first c (or before the end)
RECURSIVE strcspn(_, _)
strcspn(s, c) ==
  IF s = <<>> \/ Head(s) = c THEN 0 ELSE 1 + strcspn(Tail(s), c)

\* the function looking for the first c where the code looks for the last
strchr_first(s, c) ==
  IF \E i \in 1 .. Len(s) : s[i] = c
    THEN CHOOSE i \in 1 .. Len(s) : s[i] = c /\ \A j \in 1 .. i - 1 : s[j] # c
    ELSE 0

\* the place of the last c in s, 0 when there is none
strrchr(s, c) ==
  IF \E i \in 1 .. Len(s) : s[i] = c
    THEN CHOOSE i \in 1 .. Len(s) : s[i] = c /\ \A j \in i + 1 .. Len(s) : s[j] # c
    ELSE 0

DigitChars == <<"0", "1", "2", "3", "4", "5", "6", "7", "8", "9">>

isdigit(c) == \E i \in 1 .. Len(DigitChars) : DigitChars[i] = c

isspace(c) == c = " "

DigitValue(c) == (CHOOSE i \in 1 .. Len(DigitChars) : DigitChars[i] = c) - 1

RECURSIVE SkipSpace(_)
SkipSpace(s) == IF s # <<>> /\ isspace(Head(s)) THEN SkipSpace(Tail(s)) ELSE s

RECURSIVE ScanDigits(_, _)
ScanDigits(s, acc) ==
  IF s # <<>> /\ isdigit(Head(s))
    THEN ScanDigits(Tail(s), acc * 10 + DigitValue(Head(s)))
    ELSE [ value |-> acc, rest |-> s ]

\* strtoul(nptr, &endptr, 10): white space is skipped, one sign is taken, the
\* digits are converted; a minus sign negates the value as an unsigned long;
\* without a digit nothing is converted and endptr is nptr. The texts
\* converted are short of the overflow of an unsigned long.
strtoul(nptr) ==
  LET s1  == SkipSpace(nptr)
      neg == s1 # <<>> /\ Head(s1) = "-"
      s2  == IF s1 # <<>> /\ Head(s1) \in {"+", "-"} THEN Tail(s1) ELSE s1
      d   == ScanDigits(s2, 0)
  IN IF Len(d.rest) = Len(s2)
       THEN [ value |-> 0, rest |-> nptr ]
       ELSE [ value |-> IF neg /\ d.value # 0 THEN ULONG_MAX - d.value + 1 ELSE d.value,
              rest |-> d.rest ]

\* no handle: a null pointer
NoHandle == [ hostname |-> <<>>, port |-> -1 ]

\* ok: calloc, ssh_new and the two ssh_options_set calls all succeed
__twopence_ssh_init(hostname, port, ok) ==
  IF ok THEN [ hostname |-> hostname, port |-> port ] ELSE NoHandle

twopence_ssh_init(arg, ok) ==
  LET colon == strrchr(arg, ":")
  IN IF colon = 0 THEN __twopence_ssh_init(arg, DefaultPort, ok)
     ELSE LET copy_spec == SubSeq(arg, 1, colon - 1)
              p == strtoul(SubSeq(arg, colon + 1, Len(arg)))
          IN IF p.rest # <<>> \/ p.value >= PortLimit THEN NoHandle
             ELSE LET n == Len(copy_spec)
                      hostname ==
                        IF copy_spec # <<>> /\ Head(copy_spec) = "["
                          THEN IF copy_spec[n] = "]" THEN SubSeq(copy_spec, 2, n - 1)
                                                     ELSE copy_spec
                          ELSE copy_spec
                  IN __twopence_ssh_init(hostname, p.value, ok)

PluginVirtio == <<"v", "i", "r", "t", "i", "o">>
PluginSsh == <<"s", "s", "h">>
PluginSerial == <<"s", "e", "r", "i", "a", "l">>

twopence_plugin_type(plugin_name) ==
  IF plugin_name = PluginVirtio THEN "TWOPENCE_PLUGIN_VIRTIO"
  ELSE IF plugin_name = PluginSsh THEN "TWOPENCE_PLUGIN_SSH"
  ELSE IF plugin_name = PluginSerial THEN "TWOPENCE_PLUGIN_SERIAL"
  ELSE "TWOPENCE_PLUGIN_UNKNOWN"

twopence_plugin_name_is_valid(name) ==
  twopence_plugin_type(name) # "TWOPENCE_PLUGIN_UNKNOWN"

\* name: the plugin name, ok when there is one; spec: what is left of the
\* specification, null when it has no colon
twopence_target_split(target_spec) ==
  LET len == strcspn(target_spec, ":")
      plugin == SubSeq(target_spec, 1, len)
      none == [ ok |-> FALSE, name |-> <<>>, null |-> TRUE, spec |-> <<>> ]
  IN IF len = 0 THEN none
     ELSE IF ~twopence_plugin_name_is_valid(plugin) THEN none
     ELSE IF len < Len(target_spec)
       THEN [ ok |-> TRUE, name |-> plugin, null |-> FALSE,
              spec |-> SubSeq(target_spec, len + 2, Len(target_spec)) ]
       ELSE [ ok |-> TRUE, name |-> plugin, null |-> TRUE, spec |-> <<>> ]

\* dl: what the dynamic loader gives: "no_library" (dlopen fails),
\* "no_symbol" (neither symbol is found), "no_init" (a function vector
\* without an init function), "ok"
LoaderOutcomes == {"no_library", "no_symbol", "no_init", "ok"}

\* the function without the store of the handle it has loaded
get_plugin_ops_no_store(handles, name, dl) ==
  LET type == twopence_plugin_type(name)
  IN IF type = "TWOPENCE_PLUGIN_UNKNOWN"
       THEN [ handles |-> handles, dlopened |-> FALSE, rc |-> TWOPENCE_UNKNOWN_PLUGIN ]
     ELSE IF ~handles[type] /\ dl = "no_library"
       THEN [ handles |-> handles, dlopened |-> TRUE, rc |-> TWOPENCE_UNKNOWN_PLUGIN ]
     ELSE [ handles |-> handles,
            dlopened |-> ~handles[type],
            rc |-> IF dl = "no_symbol" THEN TWOPENCE_INCOMPATIBLE_PLUGIN ELSE 0 ]

\* handles: plugin_dl_handles when the call is made. The result: the cache
\* after the call, whether twopence_load_library was called, the return value
__twopence_get_plugin_ops(handles, name, dl) ==
  LET type == twopence_plugin_type(name)
  IN IF type = "TWOPENCE_PLUGIN_UNKNOWN"
       THEN [ handles |-> handles, dlopened |-> FALSE, rc |-> TWOPENCE_UNKNOWN_PLUGIN ]
     ELSE IF ~handles[type] /\ dl = "no_library"
       THEN [ handles |-> handles, dlopened |-> TRUE, rc |-> TWOPENCE_UNKNOWN_PLUGIN ]
     ELSE [ handles |-> [handles EXCEPT ![type] = TRUE],
            dlopened |-> ~handles[type],
            rc |-> IF dl = "no_symbol" THEN TWOPENCE_INCOMPATIBLE_PLUGIN ELSE 0 ]

\* What a call of twopence_ssh_init with a null pointer, which strrchr
\* dereferences, can come to: the process is ended, or the call goes on with
\* whatever it reads and gives no handle or some handle
NullSpecOutcomes == {"crash", "no_handle", "handle"}

\* e.dl: the loader's answer; e.ok: the provider sets the handle up; e.ub: the
\* outcome of init on a null pointer; e.other: the init function of a plugin
\* other than ssh gives a handle
\* handles: plugin_dl_handles when the call is made, and in the result after it
__twopence_target_new(handles, target_spec, e) ==
  LET s == twopence_target_split(target_spec)
      g == __twopence_get_plugin_ops(handles, s.name, e.dl)
      ops == g.rc
      after == IF s.ok THEN g.handles ELSE handles
      failed(code) == [ rc |-> code, handle |-> NoHandle, crashed |-> FALSE,
                        handles |-> after, dlopened |-> s.ok /\ g.dlopened ]
      made(h) == IF h = NoHandle THEN failed(TWOPENCE_UNKNOWN_PLUGIN)
                 ELSE [ rc |-> 0, handle |-> h, crashed |-> FALSE,
                        handles |-> after, dlopened |-> g.dlopened ]
      some == [ hostname |-> <<"?">>, port |-> 0 ]
  IN IF ~s.ok THEN failed(TWOPENCE_INVALID_TARGET_SPEC)
     ELSE IF ops < 0 THEN failed(ops)
          ELSE
             IF e.dl = "no_init" THEN failed(TWOPENCE_INCOMPATIBLE_PLUGIN)
             ELSE IF s.name # PluginSsh THEN made(IF e.other THEN some ELSE NoHandle)
             ELSE IF s.null
               THEN CASE e.ub = "crash" -> [ rc |-> 0, handle |-> NoHandle, crashed |-> TRUE,
                                             handles |-> after, dlopened |-> g.dlopened ]
                      [] e.ub = "no_handle" -> made(NoHandle)
                      [] e.ub = "handle" -> made(some)
             ELSE made(twopence_ssh_init(s.spec, e.ok))

twopence_target_new(handles, target_spec, e) == __twopence_target_new(handles, target_spec, e)

\* The inputs. Host parts: a name, a bracketed address, an opening bracket
\* without its closing one, nothing, a name with a colon in it
Hosts ==
  { <<"h">>, <<"[", ":", ":", "1", "]">>, <<"[", "h">>, <<>>, <<"a", ":", "b">> }

PortNumbers == {0, 22, 2222, 65534, 65535, 99999}

\* the decimal numeral of n
RECURSIVE Numeral(_)
Numeral(n) ==
  IF n < 10 THEN <<DigitChars[n + 1]>>
  ELSE Numeral(n \div 10) \o <<DigitChars[(n % 10) + 1]>>

\* Port parts: nothing or a numeral, after nothing, a blank or a sign, before
\* nothing, a letter or a blank
PortTexts ==
  { p \o d \o x : p \in {<<>>, <<" ">>, <<"+">>, <<"-">>},
                  d \in {<<>>} \cup { Numeral(n) : n \in PortNumbers },
                  x \in {<<>>, <<"x">>, <<" ">>} }

Bodies == Hosts \cup { h \o <<":">> \o t : h \in Hosts, t \in PortTexts }

PluginNames == {PluginVirtio, PluginSsh, PluginSerial, <<"f", "o", "o">>, <<"s", "s">>, <<>>}

TargetSpecs ==
  PluginNames \cup
  { n \o <<":">> \o b : n \in PluginNames,
                        b \in {<<>>, <<"h">>, <<"h", ":", "2", "2">>, <<"h", ":">>, <<"h", ":", "x">>} }

TargetEnv ==
  { e \in [ dl : LoaderOutcomes, ok : BOOLEAN, ub : NullSpecOutcomes, other : BOOLEAN ] :
      e.dl # "ok" => (e.ok /\ e.ub = "crash" /\ e.other) }

\* twopence_ssh_init on a body, from its call to its return
SshInit ==
  /\ pc = "idle"
  /\ \E arg \in Bodies, ok \in BOOLEAN :
       target' = [ op |-> "ssh_init", arg |-> arg, ok |-> ok, rc |-> 0, crashed |-> FALSE,
                   handle |-> twopence_ssh_init(arg, ok) ]
  /\ UNCHANGED <<io, loader, call, pc, cmd, foreground, trans, heap, chan, sess, stdin, status, rc, clock, intr, hist,
                 xfer, reports, sink>>

\* twopence_target_new on a specification, the first call of a process, from
\* its call to its return
TargetNew ==
  /\ pc = "idle"
  /\ \E spec \in TargetSpecs, e \in TargetEnv :
       LET r == twopence_target_new(NoHandles, spec, e)
       IN target' = [ op |-> "target_new", arg |-> spec, ok |-> e.ok, rc |-> r.rc,
                      crashed |-> r.crashed, handle |-> r.handle ]
  /\ UNCHANGED <<io, loader, call, pc, cmd, foreground, trans, heap, chan, sess, stdin, status, rc, clock, intr, hist,
                 xfer, reports, sink>>

NextTarget ==
  \/ SshInit
  \/ TargetNew

SpecTarget == Init /\ [][NextTarget]_vars

----------------------------------------------------------------------------
\* The plugin libraries of a process (twopence.c)

\* the specifications of the calls: each plugin name with a host, and one
\* specification that is refused
LoadSpecs ==
  { n \o <<":", "h">> : n \in {PluginVirtio, PluginSsh, PluginSerial} } \cup { <<"f", ":", "h">> }

\* The answers to a call. An answer to a call that is never made is left out
\* (held at its first value): dlopen is called only while the cache has no
\* handle for the type
LoadEnv(handles, spec) ==
  { e \in TargetEnv :
      LET type == twopence_plugin_type(twopence_target_split(spec).name)
      IN /\ e.ub = "crash"
         /\ (type = "TWOPENCE_PLUGIN_UNKNOWN" \/ handles[type]) => e.dl # "no_library"
         /\ type = "TWOPENCE_PLUGIN_UNKNOWN" => e.dl = "ok" }

\* one more twopence_target_new call of the process, from its call to its return
TargetNewNext ==
  /\ pc = "idle"
  /\ loader.calls < MaxCalls
  /\ \E spec \in LoadSpecs :
       \E e \in LoadEnv(loader.handles, spec) :
          LET r == twopence_target_new(loader.handles, spec, e)
              type == twopence_plugin_type(twopence_target_split(spec).name)
              loaded == r.dlopened /\ e.dl # "no_library"
              count(f, yes) == IF yes THEN [f EXCEPT ![type] = @ + 1] ELSE f
          IN loader' = [loader EXCEPT
                          !.handles = r.handles,
                          !.dlopens = count(@, r.dlopened),
                          !.loads = count(@, loaded),
                          !.stores = count(@, loaded /\ r.handles[type]),
                          !.calls = @ + 1,
                          !.last = [ type |-> type,
                                     cached |-> type \in PluginTypes /\ loader.handles[type],
                                     dlopened |-> r.dlopened, rc |-> r.rc ]]
  /\ UNCHANGED <<io, pc, cmd, foreground, trans, heap, chan, sess, stdin, status, rc, clock, intr, hist,
                 xfer, reports, sink, target, call>>

NextLoad == TargetNewNext

SpecLoad == Init /\ [][NextLoad]_vars

\* The same function run by several threads, one step for each access to
\* what the threads share: the cache and the dynamic loader. A thread is in
\* twopence_target_new with a specification whose plugin name is known.

\* the thread enters __twopence_get_plugin_ops
ThreadCall(i) ==
  /\ loader.th[i].pc = "idle"
  /\ loader.calls < MaxCalls
  /\ \E name \in {PluginVirtio, PluginSsh, PluginSerial} :
       loader' = [loader EXCEPT
                    !.calls = @ + 1,
                    !.th[i] = [ pc |-> "read", name |-> name, type |-> twopence_plugin_type(name),
                                dl_handle |-> FALSE, rc |-> 0 ]]

\* dl_handle = plugin_dl_handles[type]
ThreadRead(i) ==
  /\ loader.th[i].pc = "read"
  /\ LET h == loader.handles[loader.th[i].type]
     IN loader' = [loader EXCEPT !.th[i].dl_handle = h,
                                 !.th[i].pc = IF h THEN "symbol" ELSE "load"]

\* dl_handle = twopence_load_library(name)
ThreadLoad(i) ==
  /\ loader.th[i].pc = "load"
  /\ \E ok \in BOOLEAN :
       LET type == loader.th[i].type
       IN loader' = [loader EXCEPT
                       !.dlopens[type] = @ + 1,
                       !.loads[type] = IF ok THEN @ + 1 ELSE @,
                       !.th[i].dl_handle = ok,
                       !.th[i].rc = IF ok THEN 0 ELSE TWOPENCE_UNKNOWN_PLUGIN,
                       !.th[i].pc = IF ok THEN "store" ELSE "done"]

\* plugin_dl_handles[type] = dl_handle
ThreadStore(i) ==
  /\ loader.th[i].pc = "store"
  /\ LET type == loader.th[i].type
     IN loader' = [loader EXCEPT !.handles[type] = TRUE,
                                 !.stores[type] = @ + 1,
                                 !.th[i].pc = "symbol"]

\* the two twopence_get_symbol calls and the return
ThreadSymbol(i) ==
  /\ loader.th[i].pc = "symbol"
  /\ \E found \in BOOLEAN :
       loader' = [loader EXCEPT
                    !.th[i].rc = IF found THEN 0 ELSE TWOPENCE_INCOMPATIBLE_PLUGIN,
                    !.th[i].pc = "done"]

\* the thread is back in its caller
ThreadReturn(i) ==
  /\ loader.th[i].pc = "done"
  /\ loader' = [loader EXCEPT !.th[i] = IdleThread]

ThreadStep ==
  /\ pc = "idle"
  /\ \E i \in Threads :
       \/ ThreadCall(i)
       \/ ThreadRead(i)
       \/ ThreadLoad(i)
       \/ ThreadStore(i)
       \/ ThreadSymbol(i)
       \/ ThreadReturn(i)
  /\ UNCHANGED <<io, pc, cmd, foreground, trans, heap, chan, sess, stdin, status, rc, clock, intr, hist,
                 xfer, reports, sink, target, call>>

NextThreads == ThreadStep

SpecThreads == Init /\ [][NextThreads]_vars

----------------------------------------------------------------------------
\* The generic interface (twopence.c)
\*
\* ops: the entries of target->ops that are not null. ret: what the
\* function behind each entry returns when it is called. The result of a
\* generic call: its return value and the entries it has called, in order.

Entries ==
  { "test_and_print_results", "test_and_drop_results",
    "test_and_store_results_together", "test_and_store_results_separately",
    "run_test", "inject_file", "extract_file", "exit_remote", "interrupt_command" }

twopence_test_and_print_results(ops, ret) ==
  IF "test_and_print_results" \notin ops
    THEN [ rc |-> TWOPENCE_NOT_SUPPORTED, invoked |-> <<>> ]
    ELSE [ rc |-> ret["test_and_print_results"], invoked |-> <<"test_and_print_results">> ]

twopence_test_and_drop_results(ops, ret) ==
  IF "test_and_drop_results" \notin ops
    THEN [ rc |-> TWOPENCE_NOT_SUPPORTED, invoked |-> <<>> ]
    ELSE [ rc |-> ret["test_and_drop_results"], invoked |-> <<"test_and_drop_results">> ]

twopence_test_and_store_results_together(ops, ret) ==
  IF "test_and_store_results_together" \notin ops
    THEN [ rc |-> TWOPENCE_NOT_SUPPORTED, invoked |-> <<>> ]
    ELSE [ rc |-> ret["test_and_store_results_together"],
           invoked |-> <<"test_and_store_results_together">> ]

twopence_test_and_store_results_separately(ops, ret) ==
  IF "test_and_store_results_separately" \notin ops
    THEN [ rc |-> TWOPENCE_NOT_SUPPORTED, invoked |-> <<>> ]
    ELSE [ rc |-> ret["test_and_store_results_separately"],
           invoked |-> <<"test_and_store_results_separately">> ]

\* the generic call of the run_test entry, which the interface of the plugin
\* has (ssh.c: twopence_ssh_ops) and this twopence.c does not define
twopence_run_test(ops, ret) ==
  IF "run_test" \notin ops
    THEN [ rc |-> TWOPENCE_NOT_SUPPORTED, invoked |-> <<>> ]
    ELSE [ rc |-> ret["run_test"], invoked |-> <<"run_test">> ]

twopence_inject_file(ops, ret) ==
  IF "inject_file" \notin ops
    THEN [ rc |-> TWOPENCE_NOT_SUPPORTED, invoked |-> <<>> ]
    ELSE [ rc |-> ret["inject_file"], invoked |-> <<"inject_file">> ]

twopence_extract_file(ops, ret) ==
  IF "extract_file" \notin ops
    THEN [ rc |-> TWOPENCE_NOT_SUPPORTED, invoked |-> <<>> ]
    ELSE [ rc |-> ret["extract_file"], invoked |-> <<"extract_file">> ]

twopence_exit_remote(ops, ret) ==
  IF "exit_remote" \notin ops
    THEN [ rc |-> TWOPENCE_NOT_SUPPORTED, invoked |-> <<>> ]
    ELSE [ rc |-> ret["exit_remote"], invoked |-> <<"exit_remote">> ]

\* the function testing its own entry and calling the one of exit_remote
interrupt_command_calls_exit(ops, ret) ==
  IF "interrupt_command" \notin ops
    THEN [ rc |-> TWOPENCE_NOT_SUPPORTED, invoked |-> <<>> ]
    ELSE [ rc |-> ret["exit_remote"], invoked |-> <<"exit_remote">> ]

twopence_interrupt_command(ops, ret) ==
  IF "interrupt_command" \notin ops
    THEN [ rc |-> TWOPENCE_NOT_SUPPORTED, invoked |-> <<>> ]
    ELSE [ rc |-> ret["interrupt_command"], invoked |-> <<"interrupt_command">> ]

\* the generic function of each name
GenericCall(op, ops, ret) ==
  CASE op = "test_and_print_results" -> twopence_test_and_print_results(ops, ret)
    [] op = "test_and_drop_results" -> twopence_test_and_drop_results(ops, ret)
    [] op = "test_and_store_results_together" -> twopence_test_and_store_results_together(ops, ret)
    [] op = "test_and_store_results_separately" -> twopence_test_and_store_results_separately(ops, ret)
    [] op = "run_test" -> twopence_run_test(ops, ret)
    [] op = "inject_file" -> twopence_inject_file(ops, ret)
    [] op = "extract_file" -> twopence_extract_file(ops, ret)
    [] op = "exit_remote" -> twopence_exit_remote(ops, ret)
    [] op = "interrupt_command" -> twopence_interrupt_command(ops, ret)

\* The function vectors tried: the full one, the empty one, those with one
\* entry absent and those with one entry only
Vtables ==
  {Entries, {}} \cup { Entries \ {e} : e \in Entries } \cup { {e} : e \in Entries }

\* What the plugin's functions return: one of them a value of its own (0, an
\* error code or a positive value), the others one other value
PluginReturns ==
  { [ e \in Entries |-> IF e = x THEN a ELSE b ] :
      x \in Entries, a \in {0, TWOPENCE_PARAMETER_ERROR, 1}, b \in {0, TWOPENCE_NOT_SUPPORTED} }

twopence_strerror(code) ==
  CASE code = TWOPENCE_PARAMETER_ERROR -> "Invalid command parameter"
    [] code = TWOPENCE_OPEN_SESSION_ERROR ->
         "Error opening the communication with the system under test"
    [] code = TWOPENCE_SEND_COMMAND_ERROR -> "Error sending command to the system under test"
    [] code = TWOPENCE_FORWARD_INPUT_ERROR -> "Error forwarding keyboard input"
    [] code = TWOPENCE_RECEIVE_RESULTS_ERROR -> "Error receiving the results of action"
    [] code = TWOPENCE_LOCAL_FILE_ERROR -> "Local error while transferring file"
    [] code = TWOPENCE_SEND_FILE_ERROR -> "Error sending file to the system under test"
    [] code = TWOPENCE_REMOTE_FILE_ERROR -> "Remote error while transferring file"
    [] code = TWOPENCE_RECEIVE_FILE_ERROR -> "Error receiving file from the system under test"
    [] code = TWOPENCE_INTERRUPT_COMMAND_ERROR -> "Failed to interrupt command"
    [] code = TWOPENCE_INVALID_TARGET_SPEC -> "Invalid target spec"
    [] code = TWOPENCE_UNKNOWN_PLUGIN -> "Unknown plugin"
    [] code = TWOPENCE_INCOMPATIBLE_PLUGIN -> "Incompatible plugin"
    [] OTHER -> "Unknow error"

\* the codes asked for: those of the interface and some on both sides of them
Codes == (TWOPENCE_NOT_SUPPORTED - 2) .. 2

\* a call of a generic function on a target, from its call to its return
Generic ==
  /\ pc = "idle"
  /\ call.op = NULL
  /\ \E op \in Entries, ops \in Vtables, ret \in PluginReturns :
       LET r == GenericCall(op, ops, ret)
       IN call' = [ op |-> op, ops |-> ops, ret |-> ret, rc |-> r.rc, invoked |-> r.invoked ]
  /\ UNCHANGED <<io, pc, cmd, foreground, trans, heap, chan, sess, stdin, status, rc, clock, intr, hist,
                 xfer, reports, sink, target, loader>>

\* a call of twopence_strerror
Strerror ==
  /\ pc = "idle"
  /\ call.op = NULL
  /\ \E code \in Codes :
       call' = [ op |-> "strerror", code |-> code, text |-> twopence_strerror(code) ]
  /\ UNCHANGED <<io, pc, cmd, foreground, trans, heap, chan, sess, stdin, status, rc, clock, intr, hist,
                 xfer, reports, sink, target, loader>>

\* The status flags of an open descriptor, as fcntl(F_GETFL) gives them: a
\* set of flag names stands for the bits of the int
StatusFlags == {"O_NONBLOCK", "O_APPEND", "O_ASYNC"}

\* twopence_tune_stdin. flags0: the flags of descriptor 0 at the call; get,
\* set: the two fcntl calls succeed. flags: the descriptor's flags after it
twopence_tune_stdin(flags0, blocking, get, set) ==
  IF ~get THEN [ flags |-> flags0, rc |-> -1 ]
  ELSE LET cleared == flags0 \ {"O_NONBLOCK"}
           flags == IF blocking THEN cleared \cup {"O_NONBLOCK"} ELSE cleared
       IN IF set THEN [ flags |-> flags, rc |-> 0 ]
                 ELSE [ flags |-> flags0, rc |-> -1 ]

\* a call of twopence_tune_stdin
TuneStdin ==
  /\ pc = "idle"
  /\ call.op = NULL
  /\ \E flags0 \in SUBSET StatusFlags, blocking \in BOOLEAN, get \in BOOLEAN, set \in BOOLEAN :
       /\ ~get => set
       /\ LET r == twopence_tune_stdin(flags0, blocking, get, set)
          IN call' = [ op |-> "tune_stdin", blocking |-> blocking, before |-> flags0,
                       after |-> r.flags, rc |-> r.rc ]
  /\ UNCHANGED <<io, pc, cmd, foreground, trans, heap, chan, sess, stdin, status, rc, clock, intr, hist,
                 xfer, reports, sink, target, loader>>

\* the caller has the result and goes on
GenericDone ==
  /\ pc = "idle"
  /\ call.op # NULL
  /\ call' = NoCall
  /\ UNCHANGED <<io, pc, cmd, foreground, trans, heap, chan, sess, stdin, status, rc, clock, intr, hist,
                 xfer, reports, sink, target, loader>>

NextGeneric ==
  \/ Generic
  \/ Strerror
  \/ TuneStdin
  \/ GenericDone

SpecGeneric == Init /\ [][NextGeneric]_vars

---------------------------------------------------------------------------
\* Properties

Returned == pc = "returned" /\ hist.started

\* an interrupt_command call is made in this step
Interrupting == intr'.n = intr.n + 1

\* ... on a foreground transaction that is running a command
InterruptingCommand ==
  /\ Interrupting
  /\ foreground # NULL /\ heap.state = "live"
  /\ trans.channel /\ hist.started

BothInTime == hist.eof["stdout"] = "in_time" /\ hist.eof["stderr"] = "in_time"

\* C1 as stated: when both stdout and stderr reach end-of-stream before the
\* deadline and no read/write/poll/end-of-input error occurs, run_test returns
\* 0 and Status.minor is the exit code the remote channel reports.
C1_MinorIsExitCode ==
  (Returned /\ BothInTime /\ ~hist.error) =>
     (rc = 0 /\ hist.exit = {status.minor})

\* C1 as amended: in that case run_test returns 0, and Status.minor is the
\* exit code the channel reports, unless that code is the SSH_ERROR sentinel
\* and an exit signal was captured: then Status is (EFAULT, captured signal).
C1_SuccessStatus ==
  (Returned /\ BothInTime /\ ~hist.error) =>
     /\ rc = 0
     /\ IF hist.exit = {SSH_ERROR} /\ hist.signal # NULL
          THEN status = [major |-> EFAULT, minor |-> trans.exit_signal]
          ELSE hist.exit = {status.minor}

C1_Witness ==
  /\ Returned /\ BothInTime /\ ~hist.error
  /\ rc = 0 /\ hist.exit = {1} /\ status.minor = 1

\* C2 as stated: when neither stdout nor stderr reaches end-of-stream before
\* the deadline (creation time + requested timeout), run_test fails with
\* CommandTimeoutError and the Status is left zeroed.
C2_TimeoutAlways ==
  (Returned /\ hist.eof["stdout"] # "in_time" /\ hist.eof["stderr"] # "in_time") =>
     (rc = TWOPENCE_COMMAND_TIMEOUT_ERROR /\ status = [major |-> 0, minor |-> 0])

\* C2 as amended: when neither stream reaches end-of-stream before the
\* deadline, no read/write/poll/end-of-input error ends the call first, and
\* the two streams are not both found at end-of-stream by a pass made after
\* the deadline, run_test fails with CommandTimeoutError after the deadline
\* has passed and the Status is left zeroed.
C2_Timeout ==
  ( /\ Returned /\ ~hist.error
    /\ hist.eof["stdout"] # "in_time" /\ hist.eof["stderr"] # "in_time"
    /\ ~(hist.eof["stdout"] = "late" /\ hist.eof["stderr"] = "late") ) =>
     /\ rc = TWOPENCE_COMMAND_TIMEOUT_ERROR
     /\ status = [major |-> 0, minor |-> 0]
     /\ clock > cmd.timeout

C2_Witness ==
  /\ Returned /\ ~hist.error
  /\ hist.eof["stdout"] = "no" /\ hist.eof["stderr"] = "no"
  /\ rc = TWOPENCE_COMMAND_TIMEOUT_ERROR

\* C3: within one transaction the end-of-input action (the 0x04 byte under a
\* tty, and the channel's end-of-input signal) is performed at most once.
C3_EndOfInputOnce ==
  chan.ctrlD <= 1 /\ chan.eofs <= 1

\* C4: at finalization, when the remote exit status is the error sentinel and
\* the callback captured a signal (the unknown-signal value -1 included),
\* Status is (EFAULT, captured signal); in every other case major stays 0
\* and minor is the raw exit status.
C4_SignalStatus ==
  (Returned /\ hist.finalized) =>
     IF hist.exit = {SSH_ERROR} /\ hist.signal # NULL
       THEN /\ trans.exit_signal # 0
            /\ status = [major |-> EFAULT, minor |-> trans.exit_signal]
       ELSE status.major = 0 /\ hist.exit = {status.minor}

C4_Witness ==
  /\ Returned /\ hist.finalized
  /\ hist.exit = {SSH_ERROR} /\ hist.signal = "XYZ"
  /\ status = [major |-> EFAULT, minor |-> -1]

\* C5: for every signal S with an entry in the exit-signal name table, when
\* the remote reports the name written for S the callback records
\* exit_signal = S; for every name written for no signal it records -1.
C5_SignalTable ==
  pc = "called" =>
     /\ \A i \in DOMAIN signames_init :
          signames_init[i][2] = hist.signal => trans.exit_signal = signames_init[i][1]
     /\ (\A i \in DOMAIN signames_init : signames_init[i][2] # hist.signal)
          => trans.exit_signal = -1

\* C6: every failing path of a transaction ends with the channel closed and
\* freed, the session disconnected and freed, each once, and the caller's
\* stdin stream back in the blocking mode it had before the transaction.
C6_FailureTeardown ==
  (pc = "returned" /\ rc < 0 /\ heap.state # "none") =>
     /\ chan.state \in {"none", "freed"} /\ chan.closes <= 1
     /\ sess.state \in {"none", "freed"} /\ sess.frees <= 1
     /\ stdin.blocking = hist.blocking0

\* C7: at the return of every inject_file and extract_file call that opened
\* its session, the transfer's SCP handle is closed and freed and its session
\* is disconnected and freed.
C7_TransferDestroyed ==
  (xfer.op # NULL /\ xfer.opened) =>
     /\ xfer.x.se = "freed"
     /\ xfer.x.scp \in {"none", "freed"}

\* C8: interrupt_command on a foreground transaction not started under a tty
\* returns InterruptCommandError and changes nothing in the transaction but
\* its interrupted flag; nothing is written to the channel.
C8_InterruptNoTty ==
  [][ (InterruptingCommand /\ ~trans.use_tty) =>
        /\ intr'.rc = TWOPENCE_INTERRUPT_COMMAND_ERROR
        /\ trans' = [trans EXCEPT !.interrupted = TRUE]
        /\ chan' = chan ]_vars

\* the input side is closed: stdin reached end-of-stream and end-of-input
\* went out on the channel
InputClosed == trans.stdin_eof /\ (chan.ctrlD > 0 \/ chan.eofs > 0)

\* C9: interrupt_command on a foreground transaction started under a tty:
\* when the input side is already closed it writes nothing and returns
\* InterruptCommandError; otherwise it writes the single byte 0x03 and
\* returns success (or the channel refuses the byte and it fails).
C9_InterruptTty ==
  [][ (InterruptingCommand /\ trans.use_tty) =>
        IF InputClosed
          THEN chan' = chan /\ intr'.rc = TWOPENCE_INTERRUPT_COMMAND_ERROR
          ELSE \/ chan' = [chan EXCEPT !.ctrlC = @ + 1] /\ intr'.rc = 0
               \/ chan' = chan /\ intr'.rc = TWOPENCE_INTERRUPT_COMMAND_ERROR ]_vars

\* C10: whenever no command is executing on the target (before the first
\* run_test, after any run_test has returned) the target has no foreground
\* transaction.
C10_NoForegroundWhenIdle ==
  pc \in {"idle", "returned"} => foreground = NULL

\* C11: the exception of a transaction is the first error code reported on
\* it, whatever is reported after it, and when the poll loop fails run_test
\* returns that first code.
C11_FirstError ==
  /\ reports # <<>> => trans.exception = reports[1]
  /\ pc = "returned" => rc = reports[1]

C11_Witness ==
  /\ pc = "returned"
  /\ Len(reports) >= 2 /\ reports[2] # reports[1]
  /\ rc = reports[1]

\* a run_test call has ended the process instead of returning
CrashedInCall == pc = "crashed" /\ hist.opened

\* C12: every run_test call eventually returns. With time advancing and
\* every provider call returning (SpecLive), every call comes to its end:
\* its return, or the end of the process.
C12_CallEnds ==
  (pc = "open_session") ~> (pc = "returned" \/ CrashedInCall)

\* C12: ... and the end of a call is its return: no call ends the process.
C12_CallReturns ==
  ~CrashedInCall

\* C13: an inject_file call whose probe of the remote directory is made and
\* is not answered with a new-directory request returns SendFileError before
\* any data: no transfer handle in write mode is opened, no size is announced
\* and no chunk is written.
C13_NoDirectoryNoData ==
  (xfer.op = "inject" /\ xfer.opened /\ ~xfer.dir) =>
     /\ xfer.rc = TWOPENCE_SEND_FILE_ERROR
     /\ xfer.x.scp = "none"
     /\ xfer.x.pushed = -1
     /\ xfer.x.sent = 0 /\ xfer.x.dots = 0 /\ xfer.x.remote.data = <<>>

C13_Witness ==
  /\ xfer.op = "inject" /\ xfer.opened /\ ~xfer.dir
  /\ xfer.size > BUFFER_SIZE
  /\ xfer.x.probe = "freed"
  /\ xfer.rc = TWOPENCE_SEND_FILE_ERROR

\* C14: a file of N bytes injected and then extracted, both calls succeeding,
\* gives a local copy that is the original, byte for byte: for N = 0, for N
\* within one chunk and for N of several chunks.
C14_RoundTrip ==
  (xfer.op = "extract" /\ xfer.orig >= 0 /\ xfer.rc = 0) =>
     /\ Norm(xfer.x.local.data) = Original(xfer.orig)
     /\ ContentLen(xfer.x.local.data) = xfer.orig

C14_Witness ==
  /\ xfer.op = "extract" /\ xfer.rc = 0
  /\ xfer.orig > BUFFER_SIZE
  /\ Len(xfer.x.local.data) >= 2
  /\ Norm(xfer.x.local.data) = Original(xfer.orig)

Prefix(q, n) == SubSeq(q, 1, IF Len(q) < n THEN Len(q) ELSE n)

\* C16: in the buffer modes, after any sequence of putc and write calls, each
\* buffer holds no more bytes than its size, and holds the first
\* min(total, size) of the bytes given for it, in order.
C16_BufferPrefix ==
  (sink # NoSink /\ sink.s.mode \in BufferModes) =>
     \A b \in {"outbuf", "errbuf"} :
        /\ Len(sink.s[b].data) <= sink.s[b].size
        /\ sink.s[b].data = Prefix(sink.routed[b], sink.s[b].size)

C16_Witness ==
  /\ sink # NoSink /\ sink.s.mode = TWOPENCE_OUTPUT_BUFFER_SEPARATELY
  /\ sink.s.errbuf.size = MaxBufSize
  /\ Len(sink.routed.errbuf) > MaxBufSize
  /\ sink.routed.errbuf[1] # sink.routed.errbuf[2]
  /\ sink.s.errbuf.data = Prefix(sink.routed.errbuf, MaxBufSize)

\* C17: a putc or write call of one byte or more on a sink in a buffer mode
\* whose buffer is full returns no error.
C17_FullIsSilent ==
  (sink # NoSink /\ sink.op \in {"putc", "write"} /\ sink.s.mode \in BufferModes
     /\ sink.full /\ sink.n >= 1) => sink.rc >= 0

\* What a specification says, read as text: the plugin name is what stands
\* before the first colon, the body what stands after it
NameOf(spec) == SubSeq(spec, 1, strcspn(spec, ":"))

BodyOf(spec) == SubSeq(spec, strcspn(spec, ":") + 2, Len(spec))

\* C18: twopence_target_new fails with UnknownPlugin whenever the plugin name
\* is not virtio, ssh or serial, and whenever the specification has no body of
\* nonzero length after the plugin name.
C18_UnknownPlugin ==
  (target.op = "target_new"
     /\ (NameOf(target.arg) \notin {PluginVirtio, PluginSsh, PluginSerial}
           \/ BodyOf(target.arg) = <<>>)) =>
     (~target.crashed /\ target.rc = TWOPENCE_UNKNOWN_PLUGIN)

HasColon(s) == \E i \in 1 .. Len(s) : s[i] = ":"

\* the address of a bracketed host, the host itself otherwise
Unbracket(host) ==
  IF Len(host) >= 2 /\ host[1] = "[" /\ host[Len(host)] = "]"
    THEN SubSeq(host, 2, Len(host) - 1)
    ELSE host

\* C19: twopence_ssh_init, the provider setting the handle up: a body with
\* no colon gives host = body and port 22; a body host:port with a decimal
\* port below 65535 gives that host, brackets around it stripped, and that
\* port; a port of 99999 gives no handle.
C19_WellFormedBodies ==
  target.op = "ssh_init" =>
    \A host \in Hosts, n \in PortNumbers :
       /\ (target.ok /\ ~HasColon(host) /\ target.arg = host) =>
             target.handle = [ hostname |-> host, port |-> DefaultPort ]
       /\ (target.ok /\ n < PortLimit /\ target.arg = host \o <<":">> \o Numeral(n)) =>
             target.handle = [ hostname |-> Unbracket(host), port |-> n ]
       /\ (n = 99999 /\ target.arg = host \o <<":">> \o Numeral(n)) =>
             target.handle = NoHandle

C19_Witness ==
  /\ target.op = "ssh_init" /\ target.ok
  /\ target.arg = <<"[", ":", ":", "1", "]", ":", "2", "2", "2", "2">>
  /\ target.handle = [ hostname |-> <<":", ":", "1">>, port |-> 2222 ]

\* the text of s after its last colon
RECURSIVE AfterLastColon(_)
AfterLastColon(s) ==
  IF HasColon(Tail(s)) THEN AfterLastColon(Tail(s))
  ELSE IF Head(s) = ":" THEN Tail(s) ELSE AfterLastColon(Tail(s))

RECURSIVE DecimalValue(_)
DecimalValue(t) ==
  IF t = <<>> THEN 0
  ELSE 10 * DecimalValue(SubSeq(t, 1, Len(t) - 1)) + DigitValue(t[Len(t)])

\* t is a decimal integer in [0, 65535)
IsPortText(t) ==
  /\ t # <<>>
  /\ \A i \in 1 .. Len(t) : isdigit(t[i])
  /\ DecimalValue(t) < PortLimit

\* C20: for every body with a colon, when the text after the last colon is
\* not a decimal integer in [0, 65535), twopence_ssh_init gives no handle.
C20_BadPortNoHandle ==
  (target.op = "ssh_init" /\ HasColon(target.arg)
     /\ ~IsPortText(AfterLastColon(target.arg))) => target.handle = NoHandle

\* C21: across the twopence_target_new calls of a process the library of a
\* plugin type is loaded at most once: a call that finds a handle in the
\* cache loads nothing, and the cache holds the handle of every load made.
C21_LoadedOnce ==
  /\ \A type \in PluginTypes :
        /\ loader.loads[type] <= 1
        /\ loader.handles[type] <=> loader.loads[type] = 1
  /\ loader.last.cached => ~loader.last.dlopened

C21_Witness ==
  /\ loader.calls >= 3
  /\ loader.last.type = "TWOPENCE_PLUGIN_SSH"
  /\ loader.last.cached /\ loader.last.rc = 0
  /\ loader.dlopens["TWOPENCE_PLUGIN_SSH"] = 2
  /\ loader.loads["TWOPENCE_PLUGIN_SSH"] = 1

\* C22: when threads create targets of one plugin type at the same time, the
\* library is loaded once and the cache is written once for that type.
C22_LoadedOnceByThreads ==
  \A type \in PluginTypes : loader.loads[type] <= 1 /\ loader.stores[type] <= 1

\* C23: every generic operation goes through the target's function vector:
\* with its entry absent the call returns NotSupported and calls nothing,
\* with its entry present it calls that entry, once, and returns what the
\* entry returns.
C23_Dispatch ==
  call.op \in Entries =>
     IF call.op \in call.ops
       THEN call.rc = call.ret[call.op] /\ call.invoked = <<call.op>>
       ELSE call.rc = TWOPENCE_NOT_SUPPORTED /\ call.invoked = <<>>

C23_Witness ==
  /\ call.op = "interrupt_command"
  /\ call.ops = Entries
  /\ call.ret["interrupt_command"] = TWOPENCE_PARAMETER_ERROR
  /\ call.ret["exit_remote"] = 0
  /\ call.rc = TWOPENCE_PARAMETER_ERROR

\* the fifteen result codes of the interface
Taxonomy ==
  { TWOPENCE_PARAMETER_ERROR, TWOPENCE_OPEN_SESSION_ERROR, TWOPENCE_SEND_COMMAND_ERROR,
    TWOPENCE_FORWARD_INPUT_ERROR, TWOPENCE_RECEIVE_RESULTS_ERROR, TWOPENCE_LOCAL_FILE_ERROR,
    TWOPENCE_SEND_FILE_ERROR, TWOPENCE_REMOTE_FILE_ERROR, TWOPENCE_RECEIVE_FILE_ERROR,
    TWOPENCE_INTERRUPT_COMMAND_ERROR, TWOPENCE_INVALID_TARGET_SPEC, TWOPENCE_UNKNOWN_PLUGIN,
    TWOPENCE_INCOMPATIBLE_PLUGIN, TWOPENCE_NOT_SUPPORTED, TWOPENCE_COMMAND_TIMEOUT_ERROR }

\* C24: twopence_strerror gives each of the fifteen codes a description of
\* its own, different from the generic one, and every other code the generic
\* one.
C24_OwnDescription ==
  call.op = "strerror" =>
     IF call.code \in Taxonomy
       THEN /\ call.text # twopence_strerror(1)
            /\ \A other \in Taxonomy \ {call.code} : twopence_strerror(other) # call.text
       ELSE call.text = "Unknow error"

\* the step of a run_test call whose command has no command line
NoCommandCall == pc = "idle" /\ pc' = "returned" /\ ~cmd'.command

\* C25: run_test with no command line returns ParameterError at once: no
\* transaction is made, no session is opened, and the foreground slot, the
\* caller's status and the blocking mode of the caller's stdin stay as they
\* were.
C25_NoCommand ==
  [][ NoCommandCall =>
        /\ rc' = TWOPENCE_PARAMETER_ERROR
        /\ trans' = trans /\ heap' = heap
        /\ sess' = sess /\ chan' = chan
        /\ foreground' = foreground
        /\ status' = hist'.status0
        /\ stdin'.blocking = hist'.blocking0 ]_vars

C25_Witness ==
  /\ pc = "returned" /\ ~cmd.command
  /\ rc = TWOPENCE_PARAMETER_ERROR
  /\ status = [major |-> EFAULT, minor |-> 9]
  /\ ~stdin.blocking
  /\ heap.state = "none" /\ sess.state = "none"

\* C26: when a transaction under a tty reaches the reading of its exit
\* status, the end-of-input protocol is complete: exactly one 0x04 byte was
\* written to the channel, the channel's end-of-input was sent after it, and
\* eof_sent is set (a successful channel write returning the number of bytes
\* written).
C26_EofBeforeStatus ==
  (Returned /\ hist.finalized /\ trans.use_tty) =>
     /\ chan.ctrlD = 1
     /\ chan.eofs = 1
     /\ trans.eof_sent

\* the call is inside the loop of __twopence_ssh_poll
InLoop == pc \in {"loop_stdin", "loop_stdout", "loop_stderr", "loop_check", "dopoll"}

\* the call has ended
Ended(p) == p \in {"returned", "crashed"}

\* C27: in every pass of the multiplexer loop the steps come in the order
\* stdin forwarding (when readiness is pending), stdout drain, stderr drain,
\* the both-EOF test, the deadline check, the blocking poll; the exit status
\* is read only where both end-of-stream flags are set, and an end-of-stream
\* flag once set is never cleared.
C27_PassOrder ==
  [][ /\ (pc = "loop_stdin" /\ pc' # pc) => (pc' = "loop_stdout" \/ Ended(pc'))
      /\ (pc = "loop_stdout" /\ pc' # pc) => (pc' = "loop_stderr" \/ Ended(pc'))
      /\ (pc = "loop_stderr" /\ pc' # pc) => (pc' = "loop_check" \/ Ended(pc'))
      /\ (pc = "loop_check" /\ pc' # pc) => (pc' = "dopoll" \/ Ended(pc'))
      /\ (pc = "dopoll" /\ pc' # pc) => (pc' = "loop_stdin" \/ Ended(pc'))
      /\ (InLoop /\ (stdin'.left # stdin.left \/ chan'.data # chan.data))
            => (pc = "loop_stdin" /\ trans.stdin_revents)
      /\ (InLoop /\ trans'.stdout_eof # trans.stdout_eof) => pc = "loop_stdout"
      /\ (InLoop /\ trans'.stderr_eof # trans.stderr_eof) => pc = "loop_stderr"
      /\ (InLoop /\ trans.exception # TWOPENCE_COMMAND_TIMEOUT_ERROR
                 /\ trans'.exception = TWOPENCE_COMMAND_TIMEOUT_ERROR)
            => (pc = "loop_check" /\ ~(trans.stdout_eof /\ trans.stderr_eof))
      /\ (pc = "loop_check" /\ pc' = "dopoll") => clock <= trans.command_timeout
      /\ (~hist.finalized /\ hist'.finalized)
            => (pc = "loop_check" /\ trans.stdout_eof /\ trans.stderr_eof)
      /\ (~Ended(pc) /\ pc # "idle" /\ trans.stdout_eof) => trans'.stdout_eof
      /\ (~Ended(pc) /\ pc # "idle" /\ trans.stderr_eof) => trans'.stderr_eof ]_vars

C27_Witness ==
  /\ Returned /\ hist.finalized
  /\ trans.stdout_eof /\ trans.stderr_eof
  /\ hist.eof["stdout"] = "in_time" /\ hist.eof["stderr"] = "late"
  /\ chan.data > 0

---------------------------------------------------------------------------
\* The output side of the loop of __twopence_ssh_poll: what the remote
\* command produces on its two streams and what reaches the local ones

\* the most bytes a command produces on one stream
MaxOutput == 2

\* The bytes of a stream, each one of its own value
Produced(out) ==
  IF out = "stdout" THEN <<"o1", "o2", "o3", "o4">> ELSE <<"e1", "e2", "e3", "e4">>

RemoteOutputs == [ Outputs -> 0 .. MaxOutput ]

\* What the channel can give for a stream of which the bytes in pending are
\* still to come: data are read in order, some of them at a time, and the
\* end of the stream is seen after the last of them
DrainOutcomes(pending, stream) ==
  { [o |-> "none", n |-> 0], [o |-> "error", n |-> 0] }
    \cup { [o |-> "data", n |-> n] : n \in 1 .. Len(pending) }
    \cup { [o |-> "write_fail", n |-> n] : n \in (IF stream.bound THEN 1 .. Len(pending) ELSE {}) }
    \cup (IF pending = <<>> THEN { [o |-> "eof", n |-> 0] } ELSE {})

\* A command starts: what it will produce, and which local streams are bound
OutputStart ==
  /\ io.op = NULL
  /\ \E len \in RemoteOutputs, bound \in [Outputs -> BOOLEAN] :
       io' = [ op |-> "poll", pc |-> "stdout", rc |-> 0,
               t |-> [ZeroTrans EXCEPT !.channel = TRUE],
               remote |-> [s \in Outputs |-> SubSeq(Produced(s), 1, len[s])],
               pending |-> [s \in Outputs |-> SubSeq(Produced(s), 1, len[s])],
               streams |-> [s \in Outputs |-> [bound |-> bound[s], data |-> <<>>]] ]
  /\ UNCHANGED <<pc, cmd, foreground, trans, heap, chan, sess, stdin, status, rc, clock, intr, hist,
                 xfer, reports, sink, target, loader, call>>

\* __twopence_ssh_poll, one output step of the loop
Drain(out, next) ==
  /\ io.op = "poll" /\ io.pc = out
  /\ \E e \in DrainOutcomes(io.pending[out], io.streams[out]) :
       LET buffer == SubSeq(io.pending[out], 1, e.n)
           f == __twopence_ssh_transaction_forward_output(io.t, out, e.o, buffer, io.streams)
       IN io' = [io EXCEPT !.t = f.t,
                           !.streams = f.streams,
                           !.pending[out] = SubSeq(@, e.n + 1, Len(@)),
                           !.pc = IF f.rc < 0 THEN "done" ELSE next,
                           !.rc = IF f.rc < 0 THEN f.t.exception ELSE 0]
  /\ UNCHANGED <<pc, cmd, foreground, trans, heap, chan, sess, stdin, status, rc, clock, intr, hist,
                 xfer, reports, sink, target, loader, call>>

DrainStdout == Drain("stdout", "stderr")

DrainStderr == Drain("stderr", "check")

\* __twopence_ssh_poll, the rest of a pass: with both streams ended the exit
\* status is read (finalized: with success) and the call returns; else the
\* deadline has passed (timeout), or the poll fails, or the next pass begins
OutputCheck ==
  /\ io.op = "poll" /\ io.pc = "check"
  /\ IF io.t.stdout_eof /\ io.t.stderr_eof
       THEN \E finalized \in BOOLEAN :
              io' = [io EXCEPT !.pc = "done",
                               !.rc = IF finalized THEN 0 ELSE TWOPENCE_RECEIVE_RESULTS_ERROR]
       ELSE \E then \in {"timeout", "poll_error", "pass"} :
              io' = [io EXCEPT !.pc = IF then = "pass" THEN "stdout" ELSE "done",
                               !.rc = CASE then = "timeout" -> TWOPENCE_COMMAND_TIMEOUT_ERROR
                                        [] then = "poll_error" -> TWOPENCE_RECEIVE_RESULTS_ERROR
                                        [] OTHER -> 0]
  /\ UNCHANGED <<pc, cmd, foreground, trans, heap, chan, sess, stdin, status, rc, clock, intr, hist,
                 xfer, reports, sink, target, loader, call>>

\* the caller has the result and its streams
OutputDone ==
  /\ io.op = "poll" /\ io.pc = "done"
  /\ io' = NoIo
  /\ UNCHANGED <<pc, cmd, foreground, trans, heap, chan, sess, stdin, status, rc, clock, intr, hist,
                 xfer, reports, sink, target, loader, call>>

NextOutput ==
  \/ OutputStart
  \/ DrainStdout
  \/ DrainStderr
  \/ OutputCheck
  \/ OutputDone

SpecOutput == Init /\ [][NextOutput]_vars

---------------------------------------------------------------------------
\* The input side of __twopence_ssh_poll: the local stdin stream forwarded
\* to the channel, before the loop and in the stdin step of each pass

\* no forwarding was made in the last step
NoForward == [ called |-> FALSE ]

\* A command was started on a channel (tty: under a tty) with the stream s
\* as its stdin
InputStart ==
  /\ io.op = NULL
  /\ \E s \in StdinStreams, tty \in BOOLEAN :
       io' = [ op |-> "stdin", pc |-> "poll_stdin", rc |-> 0, last |-> NoForward,
               w |-> __twopence_ssh_transaction_setup_stdio(
                       [ t |-> [__twopence_ssh_transaction_new(0, 0) EXCEPT
                                  !.session = TRUE, !.channel = TRUE, !.use_tty = tty],
                         heap |-> [state |-> "live", frees |-> 0],
                         ch |-> [NoChan EXCEPT !.state = "open"],
                         se |-> [state |-> "open", frees |-> 0],
                         in |-> s ]) ]
  /\ UNCHANGED <<pc, cmd, foreground, trans, heap, chan, sess, stdin, status, rc, clock, intr, hist,
                 xfer, reports, sink, target, loader, call>>

\* __twopence_ssh_transaction_poll_stdin, one turn of its loop
InputPollStdin ==
  /\ io.op = "stdin" /\ io.pc = "poll_stdin"
  /\ \E n \in PollOutcomes(io.w.in), e \in StdinEnv(io.w.t, io.w.in) :
       LET r == __twopence_ssh_transaction_poll_stdin(io.w, n, e)
           forwards == ~io.w.t.stdin_eof /\ io.w.t.stdin_stream /\ n = 0
                         /\ ~twopence_iostream_eof(io.w.in)
       IN io' = [io EXCEPT !.w = r.w,
                           !.last = IF forwards THEN [called |-> TRUE, e |-> e, w |-> io.w] ELSE NoForward,
                           !.pc = CASE r.next = "fail" -> "done"
                                    [] r.next = "break" -> "pass"
                                    [] OTHER -> "poll_stdin",
                           !.rc = IF r.next = "fail" THEN r.w.t.exception ELSE 0]
  /\ UNCHANGED <<pc, cmd, foreground, trans, heap, chan, sess, stdin, status, rc, clock, intr, hist,
                 xfer, reports, sink, target, loader, call>>

\* __twopence_ssh_poll, the stdin step of a pass
InputForward ==
  /\ io.op = "stdin" /\ io.pc = "pass"
  /\ IF io.w.t.stdin_revents
       THEN \E e \in StdinEnv(io.w.t, io.w.in) :
              LET f == __twopence_ssh_transaction_forward_stdin(io.w, e)
                  forwards == io.w.t.stdin_stream /\ ~twopence_iostream_eof(io.w.in)
                  last == IF forwards THEN [called |-> TRUE, e |-> e, w |-> io.w] ELSE NoForward
              IN IF f.rc < 0
                   THEN LET t == __twopence_ssh_transaction_fail(f.w.t, TWOPENCE_FORWARD_INPUT_ERROR)
                        IN io' = [io EXCEPT !.w = [f.w EXCEPT !.t = t], !.last = last,
                                            !.pc = "done", !.rc = t.exception]
                   ELSE io' = [io EXCEPT !.w = [f.w EXCEPT !.t.stdin_revents = FALSE],
                                         !.last = last, !.pc = "dopoll"]
       ELSE io' = [io EXCEPT !.last = NoForward, !.pc = "dopoll"]
  /\ UNCHANGED <<pc, cmd, foreground, trans, heap, chan, sess, stdin, status, rc, clock, intr, hist,
                 xfer, reports, sink, target, loader, call>>

\* The rest of the pass: the call ends (for what the output side brings), or
\* the poll is made and __twopence_ssh_stdin_cb notes the readiness of a
\* polled stdin
InputDopoll ==
  /\ io.op = "stdin" /\ io.pc = "dopoll"
  /\ \E ends \in BOOLEAN, ready \in BOOLEAN, e \in EofEnv(io.w.t) :
       IF ends
         THEN io' = [io EXCEPT !.last = NoForward, !.pc = "done", !.rc = 0]
         ELSE LET w1 == __twopence_ssh_poll_add_transaction(io.w, e)
              IN io' = [io EXCEPT !.last = NoForward, !.pc = "pass",
                                  !.w = [w1 EXCEPT !.t.stdin_revents =
                                           IF w1.t.stdin_fd >= 0 /\ ready THEN TRUE ELSE @]]
  /\ UNCHANGED <<pc, cmd, foreground, trans, heap, chan, sess, stdin, status, rc, clock, intr, hist,
                 xfer, reports, sink, target, loader, call>>

\* the caller has the result
InputDone ==
  /\ io.op = "stdin" /\ io.pc = "done"
  /\ io' = NoIo
  /\ UNCHANGED <<pc, cmd, foreground, trans, heap, chan, sess, stdin, status, rc, clock, intr, hist,
                 xfer, reports, sink, target, loader, call>>

NextInput ==
  \/ InputStart
  \/ InputPollStdin
  \/ InputForward
  \/ InputDopoll
  \/ InputDone

SpecInput == Init /\ [][NextInput]_vars

\* the last step forwarded stdin
Forwarded == io.op = "stdin" /\ io.last.called

\* C29: when the channel takes another number of bytes than were read from
\* the local stdin stream, the transaction fails with ForwardInputError; when
\* the local stream has no data and is not at its end (it would block), the
\* pass goes on with no error, and no end-of-input is sent.
C29_StdinForwarding ==
  Forwarded =>
     /\ (io.last.e.read = "data" /\ ~io.last.e.written)
           => (io.pc = "done" /\ io.rc = TWOPENCE_FORWARD_INPUT_ERROR)
     /\ io.last.e.read = "eagain"
           => /\ io.pc # "done" /\ io.rc = 0
              /\ io.w.t.exception = 0
              /\ ~io.w.t.stdin_eof /\ ~io.w.t.eof_sent
              /\ io.w.ch = io.last.w.ch
              /\ io.w.in = io.last.w.in

C29_Witness ==
  /\ Forwarded
  /\ io.last.e.read = "eagain"
  /\ io.last.w.t.stdin_revents
  /\ io.pc = "dopoll"
  /\ io.w.in.left > 0

---------------------------------------------------------------------------
\* The chunk loop of __twopence_ssh_send_file, pass by pass. remaining is a
\* long and size an int: on Linux/x86_64 64 and 32 bits. A long v >= 0 is
\* held as [hi, lo] with v = hi * Two30 + lo and 0 <= lo < Two30.

Two30 == 1073741824

LongOf(hi, lo) == [ hi |-> hi, lo |-> lo ]

\* int size = trans->remaining: the low 32 bits, as a signed number
IntOf(v) ==
  LET h == v.hi % 4
  IN IF h < 2 THEN h * Two30 + v.lo ELSE (h - 4) * Two30 + v.lo

\* v + m, for 0 <= m < 2^31
LongPlus(v, m) ==
  LET lo == v.lo + (m % Two30)
  IN [ hi |-> v.hi + (m \div Two30) + (lo \div Two30), lo |-> lo % Two30 ]

\* trans->remaining -= size, for an int size
LongMinus(v, n) ==
  IF n < 0 THEN LongPlus(LongPlus(v, -(n + 1)), 1)
  ELSE LET a == n \div Two30
           b == n % Two30
       IN IF v.lo >= b THEN [ hi |-> v.hi - a, lo |-> v.lo - b ]
                       ELSE [ hi |-> v.hi - a - 1, lo |-> v.lo + Two30 - b ]

LongPositive(v) == v.hi > 0 \/ (v.hi = 0 /\ v.lo > 0)

LongLess(v, w) == v.hi < w.hi \/ (v.hi = w.hi /\ v.lo < w.lo)

\* The sizes a file is announced with: up to some chunks, and the same with
\* bit 31 or bit 32 set
AnnouncedSizes ==
  { LongOf(hi, k * BUFFER_SIZE + d) : hi \in {0, 2, 4}, k \in 0 .. MaxChunks, d \in {0, 1} }

\* What twopence_iostream_read(stream, buffer, size) can do: "full": it
\* returns size; "short": it returns another number; "crash": given a
\* negative size, taken for a huge count, it writes past the buffer and the
\* process ends. It returns -1 or a count, so no size below -1.
ReadResults(size) ==
  (IF size >= -1 THEN {"full"} ELSE {})
    \cup {"short"}
    \cup (IF size < 0 THEN {"crash"} ELSE {})

\* One pass of the while loop, remaining > 0. x: the transfer (remaining, the
\* dots and newlines put out, status->major); e.read, e.write: what the
\* local read and ssh_scp_write do; e.code: ssh_get_error_code
send_file_pass(x, e) ==
  LET size == ChunkSize(IntOf(x.remaining))
  IN CASE e.read = "crash" -> [ x |-> x, size |-> size, next |-> "crash", rc |-> 0 ]
       [] e.read = "short" ->
            [ x |-> [x EXCEPT !.nl = @ + 1], size |-> size, next |-> "return",
              rc |-> TWOPENCE_LOCAL_FILE_ERROR ]
       [] ~e.write ->
            [ x |-> [x EXCEPT !.major = e.code, !.nl = @ + 1], size |-> size, next |-> "return",
              rc |-> TWOPENCE_SEND_FILE_ERROR ]
       [] OTHER ->
            [ x |-> [x EXCEPT !.dots = @ + 1, !.remaining = LongMinus(@, size)],
              size |-> size, next |-> "again", rc |-> 0 ]

\* __twopence_ssh_inject_ssh has announced the file and calls the loop.
\* chunks: the chunks sent; size, before: the size of the last one and what
\* remained before it
SendFileStart ==
  /\ xfer.op = NULL
  /\ \E n \in AnnouncedSizes :
       xfer' = [ op |-> "send_file", pc |-> "loop", rc |-> 0, announced |-> n,
                 x |-> [remaining |-> n, dots |-> 0, nl |-> 0, major |-> 0],
                 chunks |-> 0, size |-> 0, before |-> n ]
  /\ UNCHANGED <<io, pc, cmd, foreground, trans, heap, chan, sess, stdin, status, rc, clock, intr, hist,
                 reports, sink, target, loader, call>>

\* the loop's test, and one pass; the passes are followed as far as the
\* longest file of AnnouncedSizes without bit 31 or 32 needs
SendFilePass ==
  /\ xfer.op = "send_file" /\ xfer.pc = "loop"
  /\ IF ~LongPositive(xfer.x.remaining)
       THEN xfer' = [xfer EXCEPT !.x.nl = @ + 1, !.pc = "done", !.rc = 0]
       ELSE /\ xfer.chunks <= MaxChunks + 1
            /\ \E read \in ReadResults(ChunkSize(IntOf(xfer.x.remaining))),
                  write \in BOOLEAN, code \in ErrorCodes :
                 /\ (read # "full" \/ write) => code = 0
                 /\ LET r == send_file_pass(xfer.x, [read |-> read, write |-> write, code |-> code])
                    IN xfer' = [xfer EXCEPT !.x = r.x,
                                            !.size = IF r.next = "again" THEN r.size ELSE @,
                                            !.before = IF r.next = "again" THEN xfer.x.remaining ELSE @,
                                            !.chunks = IF r.next = "again" THEN @ + 1 ELSE @,
                                            !.rc = r.rc,
                                            !.pc = CASE r.next = "again" -> "loop"
                                                     [] r.next = "return" -> "done"
                                                     [] OTHER -> "crashed"]
  /\ UNCHANGED <<io, pc, cmd, foreground, trans, heap, chan, sess, stdin, status, rc, clock, intr, hist,
                 reports, sink, target, loader, call>>

\* the caller has the result
SendFileDone ==
  /\ xfer.op = "send_file" /\ xfer.pc = "done"
  /\ xfer' = NoXfer
  /\ UNCHANGED <<io, pc, cmd, foreground, trans, heap, chan, sess, stdin, status, rc, clock, intr, hist,
                 reports, sink, target, loader, call>>

NextChunks ==
  \/ SendFileStart
  \/ SendFilePass
  \/ SendFileDone

SpecChunks == Init /\ [][NextChunks]_vars

\* C30: the upload's chunk loop for a file of N announced bytes ends; every
\* chunk has between 1 and BUFFER_SIZE bytes, the remaining count goes down
\* by the chunk's size and never below 0, one dot is put out per chunk sent,
\* and one newline on every exit of the loop: success, a short local read
\* (LocalFileError), a failed remote write (SendFileError).
C30_ChunkLoop ==
  xfer.op = "send_file" =>
     /\ xfer.pc \in {"loop", "done"}
     /\ xfer.chunks > 0 =>
           /\ 1 <= xfer.size /\ xfer.size <= BUFFER_SIZE
           /\ xfer.x.remaining = LongMinus(xfer.before, xfer.size)
           /\ LongLess(xfer.x.remaining, xfer.before)
     /\ xfer.x.remaining.hi >= 0 /\ xfer.x.remaining.lo >= 0
     /\ xfer.x.dots = xfer.chunks
     /\ xfer.x.nl = IF xfer.pc = "done" THEN 1 ELSE 0
     /\ xfer.pc = "done" =>
           /\ xfer.rc \in {0, TWOPENCE_LOCAL_FILE_ERROR, TWOPENCE_SEND_FILE_ERROR}
           /\ xfer.rc = 0 => ~LongPositive(xfer.x.remaining)

\* run_test returns from the loop of __twopence_ssh_poll in this step
LoopReturns == hist.started /\ pc # "returned" /\ pc' = "returned"

\* C31: an interrupt request never ends the multiplexer loop by itself. The
\* interrupt_command call on a running transaction leaves the caller of
\* run_test where it is, and after it run_test still returns only because
\* both output streams ended, because an I/O error occurred, or because the
\* deadline has passed: the loop never reads the interrupted flag.
C31_InterruptKeepsLoop ==
  [][ /\ InterruptingCommand => (pc' = pc /\ rc' = rc /\ hist' = hist /\ status' = status)
      /\ (LoopReturns /\ intr.n > 0) =>
            \/ hist'.finalized /\ trans.stdout_eof /\ trans.stderr_eof
            \/ hist'.error /\ rc' < 0
            \/ rc' = TWOPENCE_COMMAND_TIMEOUT_ERROR /\ clock > cmd.timeout ]_vars

C31_Witness ==
  /\ Returned /\ intr.n > 0
  /\ trans.interrupted /\ ~trans.use_tty
  /\ hist.finalized /\ rc = 0
  /\ hist.eof["stdout"] = "in_time"

\* C32: on every path through run_test on which a transaction was created,
\* the transaction object is released exactly once: its teardown never runs
\* twice and the object is not used after its release, also when the pty
\* allocation or the execution request fails.
C32_ReleasedOnce ==
  /\ heap.frees <= 1
  /\ pc = "returned" => ~hist.ub
  /\ (pc = "returned" /\ hist.opened) => (heap.state = "freed" /\ heap.frees = 1)

\* C33: whenever the multiplexer loop returns a negative result to run_test,
\* the transaction's exception is already set to a negative error code: the
\* assertion after the loop holds on every failing path (no started call
\* ends the process there), and the code run_test returns is the exception.
C33_ExceptionSet ==
  /\ pc = "crashed" => ~hist.started
  /\ (Returned /\ rc < 0) => (trans.exception < 0 /\ rc = trans.exception)
  /\ (Returned /\ rc = 0) => trans.exception = 0

C33_Witness ==
  /\ Returned /\ hist.error /\ ~hist.finalized
  /\ trans.stdout_eof /\ trans.stderr_eof
  /\ rc = TWOPENCE_RECEIVE_RESULTS_ERROR
  /\ trans.exception = TWOPENCE_RECEIVE_RESULTS_ERROR

\* C34: twopence_tune_stdin(blocking) leaves descriptor 0 in the mode asked
\* for: after a successful call the non-blocking flag is clear when blocking
\* is true and set when it is false, and every other flag of the descriptor
\* is as it was.
C34_TuneStdin ==
  (call.op = "tune_stdin" /\ call.rc = 0) =>
     /\ "O_NONBLOCK" \in call.after <=> ~call.blocking
     /\ call.after \ {"O_NONBLOCK"} = call.before \ {"O_NONBLOCK"}

====
